---- MODULE Spec2Model ----
(***************************************************************************)
(* A model of the Application Agent command pipeline                       *)
(* (src/application_agent): the interpreter (interpreter.py), the safety   *)
(* policy (safety.py), the action executor (actions.py) and the two        *)
(* presentation-layer callers (cli.py, main.py).                           *)
(*                                                                         *)
(* Python values are modelled as tagged records (Str, Num, Null), action   *)
(* mappings as TLA+ records whose DOMAIN is the mapping's key set, Python  *)
(* strings as TLA+ strings.  A Python call that may raise is modelled by   *)
(* an operator returning a record with a field `raised`.  The host is a    *)
(* POSIX host (pathlib resolves to PosixPath, os.name is "posix") with no  *)
(* symbolic links.                                                         *)
(***************************************************************************)
EXTENDS Integers, Sequences, FiniteSets, TLC

(***************************************************************************)
(* Python values                                                           *)
(***************************************************************************)
\* A str value.
Str(s) == [t |-> "str", s |-> s, n |-> 0, f |-> 0]
\* A number n + f/10 (an int when f = 0).
Num(n, f) == [t |-> "num", s |-> "", n |-> n, f |-> f]
\* None (JSON null).
Null == [t |-> "null", s |-> "", n |-> 0, f |-> 0]

IsStr(v) == v.t = "str"
IsNum(v) == v.t = "num"
IsNull(v) == v.t = "null"

\* Body applied to a value bound once: the local variable of a function body
Bind(value, Body(_)) == Body(value)

\* dict.get(k, d)
Get(a, k, d) == IF k \in DOMAIN a THEN a[k] ELSE d
\* Python truthiness of a value: '' , 0 and None are falsy.
Truthy(v) == CASE IsStr(v) -> v.s # ""
               [] IsNum(v) -> ~(v.n = 0 /\ v.f = 0)
               [] OTHER -> FALSE

\* a <= k for a number value a and an integer k
NumLeInt(v, k) == v.n < k \/ (v.n = k /\ v.f = 0)
\* k <= a
IntLeNum(k, v) == k <= v.n
\* a > k
NumGtInt(v, k) == v.n > k \/ (v.n = k /\ v.f > 0)

(***************************************************************************)
(* Python string methods                                                   *)
(***************************************************************************)
UpperChars == "ABCDEFGHIJKLMNOPQRSTUVWXYZ"
LowerChars == "abcdefghijklmnopqrstuvwxyz"

\* str.lower() of the upper-case letters
LowerOf ==
    [c \in { SubSeq(UpperChars, i, i) : i \in 1..Len(UpperChars) } |->
        LET i == CHOOSE j \in 1..Len(UpperChars) : SubSeq(UpperChars, j, j) = c
        IN SubSeq(LowerChars, i, i)]

\* str.lower() of one character
LowerChar(c) == IF c \in DOMAIN LowerOf THEN LowerOf[c] ELSE c

RECURSIVE Lower(_)
\* str.lower()
Lower(s) ==
    IF Len(s) <= 1
    THEN LowerChar(s)
    ELSE Lower(SubSeq(s, 1, Len(s) \div 2)) \o Lower(SubSeq(s, (Len(s) \div 2) + 1, Len(s)))

\* needle in hay
Contains(hay, needle) ==
    \E i \in 0..(Len(hay) - Len(needle)) : SubSeq(hay, i + 1, i + Len(needle)) = needle

\* s.startswith(p)
StartsWith(s, p) == Len(s) >= Len(p) /\ SubSeq(s, 1, Len(p)) = p

\* s.endswith(p)
EndsWith(s, p) == Len(s) >= Len(p) /\ SubSeq(s, Len(s) - Len(p) + 1, Len(s)) = p

\* s.rfind(c) for a one-character c, 1-based; 0 when absent
RFind(s, c) ==
    IF \E i \in 1..Len(s) : SubSeq(s, i, i) = c
    THEN CHOOSE i \in 1..Len(s) :
            /\ SubSeq(s, i, i) = c
            /\ \A j \in (i + 1)..Len(s) : SubSeq(s, j, j) # c
    ELSE 0

\* s.strip() of spaces
RECURSIVE LStrip(_)
LStrip(s) == IF s # "" /\ SubSeq(s, 1, 1) = " " THEN LStrip(SubSeq(s, 2, Len(s))) ELSE s
RECURSIVE RStrip(_)
RStrip(s) == IF s # "" /\ SubSeq(s, Len(s), Len(s)) = " " THEN RStrip(SubSeq(s, 1, Len(s) - 1)) ELSE s
Strip(s) == RStrip(LStrip(s))

RECURSIVE SplitFrom(_, _, _, _)
SplitFrom(s, sep, cur, acc) ==
    IF s = "" THEN Append(acc, cur)
    ELSE IF SubSeq(s, 1, 1) = sep
         THEN SplitFrom(SubSeq(s, 2, Len(s)), sep, "", Append(acc, cur))
         ELSE SplitFrom(SubSeq(s, 2, Len(s)), sep, cur \o SubSeq(s, 1, 1), acc)
\* s.split(sep) for a one-character sep
Split(s, sep) == SplitFrom(s, sep, "", <<>>)

(***************************************************************************)
(* str() of Python values                                                  *)
(***************************************************************************)
DigitChars == "0123456789"
RECURSIVE NatText(_)
\* str(n) for a natural number n
NatText(n) == IF n < 10 THEN SubSeq(DigitChars, n + 1, n + 1)
              ELSE NatText(n \div 10) \o SubSeq(DigitChars, (n % 10) + 1, (n % 10) + 1)

\* str(v), as an f-string formats it
ToText(v) == CASE IsStr(v) -> v.s
               [] IsNull(v) -> "None"
               [] OTHER -> (IF v.n < 0 THEN "-" \o NatText(-v.n) ELSE NatText(v.n))
                           \o (IF v.f = 0 THEN "" ELSE "." \o NatText(v.f))

\* str(x) of a float x that is not negative: the point and one digit always
FloatText(v) == NatText(v.n) \o "." \o NatText(v.f)

\* type(v).__name__
TypeName(v) == CASE IsStr(v) -> "str"
                 [] IsNull(v) -> "NoneType"
                 [] OTHER -> IF v.f = 0 THEN "int" ELSE "float"

\* str(e) of the AttributeError raised by v.lower() on a value that is no str
NoLowerText(v) == "'" \o TypeName(v) \o "' object has no attribute 'lower'"

(***************************************************************************)
(* config.py                                                               *)
(***************************************************************************)
WHITELISTED_APPLICATIONS ==
    << "notepad.exe", "notepad++.exe", "code.exe", "chrome.exe",
       "firefox.exe", "calculator.exe", "mspaint.exe", "explorer.exe",
       "cmd.exe", "powershell.exe", "wordpad.exe", "write.exe",
       "gedit", "kate", "nano", "vim", "emacs", "firefox", "chromium",
       "nautilus", "dolphin", "thunar", "pcmanfm", "calc", "gnome-calculator" >>

DANGEROUS_KEYWORDS ==
    << "format", "delete", "remove", "rm -rf", "del /f", "shutdown",
       "restart", "reboot", "kill", "taskkill", "sudo rm", "rmdir",
       "fdisk", "mkfs", "dd if=", "wget", "curl", "powershell -c",
       "cmd /c", "bash -c", "eval", "exec" >>

SAFE_FILE_EXTENSIONS ==
    << ".txt", ".md", ".json", ".csv", ".xml", ".html", ".css", ".js",
       ".py", ".java", ".cpp", ".c", ".h", ".go", ".rs", ".php", ".rb" >>

RESTRICTED_DIRECTORIES ==
    << "/etc", "/bin", "/sbin", "/usr/bin", "/usr/sbin", "/root",
       "C:\\Windows", "C:\\Program Files", "C:\\Program Files (x86)",
       "/System", "/Library", "/usr/lib", "/lib" >>

\* The elements of a sequence
Range(seq) == { seq[i] : i \in 1..Len(seq) }

(***************************************************************************)
(* pathlib on a POSIX host without symbolic links                          *)
(***************************************************************************)
RECURSIVE NormParts(_, _)
\* realpath's treatment of the components: "" and "." vanish, ".." pops
NormParts(parts, acc) ==
    IF parts = <<>> THEN acc
    ELSE LET h == Head(parts)
         IN IF h = "" \/ h = "."
            THEN NormParts(Tail(parts), acc)
            ELSE IF h = ".."
                 THEN NormParts(Tail(parts),
                                IF acc = <<>> THEN acc ELSE SubSeq(acc, 1, Len(acc) - 1))
                 ELSE NormParts(Tail(parts), Append(acc, h))

RECURSIVE JoinParts(_)
JoinParts(parts) == IF parts = <<>> THEN "" ELSE "/" \o Head(parts) \o JoinParts(Tail(parts))

\* str(Path(p).resolve()) with current directory cwd
Resolve(p, cwd) ==
    LET abs == IF StartsWith(p, "/") THEN p ELSE cwd \o "/" \o p
        parts == NormParts(Split(abs, "/"), <<>>)
    IN IF parts = <<>> THEN "/" ELSE JoinParts(parts)

\* Path.name of a resolved path
PathName(rp) == LET i == RFind(rp, "/") IN SubSeq(rp, i + 1, Len(rp))

\* Path.suffix
PathSuffix(rp) ==
    LET name == PathName(rp)
        i == RFind(name, ".")
    IN IF 1 < i /\ i < Len(name) THEN SubSeq(name, i, Len(name)) ELSE ""

(***************************************************************************)
(* safety.py: SafetyChecker                                                *)
(***************************************************************************)
\* Size and length limits of the safety policy
TypeTextCap == 10000
FileReadSizeCap == 50 * 1024 * 1024
FileWriteContentCap == 10 * 1024 * 1024
MaxClickX == 3840
MaxClickY == 2160

\* A (is_safe, reason) pair returned normally
Verdict(safe, reason) == [raised |-> FALSE, safe |-> safe, reason |-> reason]
\* An exception leaving the function
Raise(exc) == [raised |-> TRUE, safe |-> FALSE, reason |-> exc]

ReSpecialChars == "()[]{}?*+-|^$\\.&~# "
RECURSIVE ReEscape(_)
\* re.escape
ReEscape(s) ==
    IF s = "" THEN ""
    ELSE LET c == SubSeq(s, 1, 1)
         IN (IF Contains(ReSpecialChars, c) THEN "\\" \o c ELSE c)
            \o ReEscape(SubSeq(s, 2, Len(s)))

\* SafetyChecker._compile_dangerous_patterns: one pattern per keyword, matching
\* the keyword literally whatever the letter case (re.IGNORECASE)
dangerous_patterns == [i \in 1..Len(DANGEROUS_KEYWORDS) |-> Lower(DANGEROUS_KEYWORDS[i])]

\* The matches of patterns compiled without re.IGNORECASE
DangerousMatches_case_sensitive(text) ==
    { i \in 1..Len(DANGEROUS_KEYWORDS) : Contains(text, DANGEROUS_KEYWORDS[i]) }

\* The indices of the dangerous patterns for which pattern.search(text) matches
DangerousMatches(text) ==
    LET lowered == Lower(text)
    IN { i \in 1..Len(dangerous_patterns) : Contains(lowered, dangerous_patterns[i]) }

\* The first element of a non-empty set of indices
MinOf(S) == CHOOSE i \in S : \A j \in S : i <= j

_validate_click_action(action) ==
    LET x == Get(action, "x", Null)
        y == Get(action, "y", Null)
    IN IF IsNull(x) \/ IsNull(y)
       THEN Verdict(FALSE, "Click coordinates not specified")
       ELSE IF ~IsNum(x)
            THEN Verdict(FALSE, "Click validation error: TypeError")
            ELSE IF ~(IntLeNum(0, x) /\ NumLeInt(x, MaxClickX))
                 THEN Verdict(FALSE, "Click coordinates out of reasonable range")
                 ELSE IF ~IsNum(y)
                      THEN Verdict(FALSE, "Click validation error: TypeError")
                      ELSE IF ~(IntLeNum(0, y) /\ NumLeInt(y, MaxClickY))
                           THEN Verdict(FALSE, "Click coordinates out of reasonable range")
                           ELSE Verdict(TRUE, "Click action validated")

_validate_type_action(action) ==
    LET text == Get(action, "text", Str(""))
    IN IF ~IsStr(text)
       THEN Raise("expected string or bytes-like object, got '" \o TypeName(text) \o "'")
       ELSE LET matches == DangerousMatches(text.s)
            IN IF matches # {}
               THEN Verdict(FALSE, "Dangerous text pattern detected: "
                                   \o ReEscape(DANGEROUS_KEYWORDS[MinOf(matches)]))
               ELSE IF Len(text.s) > TypeTextCap
                    THEN Verdict(FALSE, "Text too long for safety")
                    ELSE Verdict(TRUE, "Type action validated")

\* allowed.lower() for allowed in config.WHITELISTED_APPLICATIONS
WhitelistLowered ==
    [i \in 1..Len(WHITELISTED_APPLICATIONS) |-> Lower(WHITELISTED_APPLICATIONS[i])]

_validate_app_action(action) ==
    LET v == Get(action, "app_name", Str(""))
    IN IF ~IsStr(v)
       THEN Raise(NoLowerText(v))
       ELSE LET app_name == Lower(v.s)
            IN IF ~(\E i \in 1..Len(WhitelistLowered) : Contains(app_name, WhitelistLowered[i]))
               THEN Verdict(FALSE, "Application '" \o app_name \o "' not in whitelist")
               ELSE Verdict(TRUE, "App action validated")

\* A policy with no restricted directory
RestrictedMatches_none(rp) == {}

\* The restricted directories the resolved path starts with
RestrictedMatches(rp) ==
    { i \in 1..Len(RESTRICTED_DIRECTORIES) : StartsWith(rp, RESTRICTED_DIRECTORIES[i]) }

\* files: the paths that exist, each with its size in bytes and its content;
\* cwd: os.getcwd()
_validate_file_read(action, files, cwd) ==
    LET file_path == Get(action, "file_path", Str(""))
    IN IF ~IsStr(file_path)
       THEN Verdict(FALSE, "File validation error: TypeError")
       ELSE LET path == Resolve(file_path.s, cwd)
                restricted == RestrictedMatches(path)
            IN IF restricted # {}
               THEN Verdict(FALSE, "Access to restricted directory: "
                                   \o RESTRICTED_DIRECTORIES[MinOf(restricted)])
               ELSE IF path \notin DOMAIN files
                    THEN Verdict(FALSE, "File does not exist")
                    ELSE IF files[path].size > FileReadSizeCap
                         THEN Verdict(FALSE, "File too large for safety")
                         ELSE Verdict(TRUE, "File read validated")

_validate_file_write(action, cwd) ==
    LET file_path == Get(action, "file_path", Str(""))
        content == Get(action, "content", Str(""))
    IN IF ~IsStr(file_path)
       THEN Verdict(FALSE, "File write validation error: TypeError")
       ELSE LET path == Resolve(file_path.s, cwd)
                restricted == RestrictedMatches(path)
            IN IF restricted # {}
               THEN Verdict(FALSE, "Write to restricted directory: "
                                   \o RESTRICTED_DIRECTORIES[MinOf(restricted)])
               ELSE IF Lower(PathSuffix(path)) \notin Range(SAFE_FILE_EXTENSIONS)
                    THEN Verdict(FALSE, "Unsafe file extension: " \o PathSuffix(path))
                    ELSE IF ~IsStr(content)
                         THEN Verdict(FALSE, "File write validation error: TypeError")
                         ELSE IF DangerousMatches(content.s) # {}
                              THEN Verdict(FALSE, "Dangerous content pattern detected")
                              ELSE IF Len(content.s) > FileWriteContentCap
                                   THEN Verdict(FALSE, "Content too large for safety")
                                   ELSE Verdict(TRUE, "File write validated")

DangerousKeys == << "alt+f4", "ctrl+alt+del", "cmd+q", "win+r" >>

\* _validate_key_action comparing the key as it is spelled
_validate_key_action_as_spelled(action) ==
    LET v == Get(action, "key", Str(""))
    IN IF ~IsStr(v)
       THEN Raise(NoLowerText(v))
       ELSE IF v.s \in Range(DangerousKeys)
            THEN Verdict(FALSE, "Dangerous key combination: " \o v.s)
            ELSE Verdict(TRUE, "Key action validated")

_validate_key_action(action) ==
    LET v == Get(action, "key", Str(""))
    IN IF ~IsStr(v)
       THEN Raise(NoLowerText(v))
       ELSE IF Lower(v.s) \in Range(DangerousKeys)
            THEN Verdict(FALSE, "Dangerous key combination: " \o Lower(v.s))
            ELSE Verdict(TRUE, "Key action validated")

ShellActionTypes == << "shell", "execute", "run_command" >>

\* SafetyChecker.validate_action
validate_action(action, files, cwd) ==
    LET v == Get(action, "action", Str(""))
    IN IF ~IsStr(v)
       THEN Raise(NoLowerText(v))
       ELSE LET action_type == Lower(v.s)
            IN CASE action_type \in Range(ShellActionTypes) ->
                       Verdict(FALSE, "Shell command execution is not allowed")
                 [] action_type = "click" -> _validate_click_action(action)
                 [] action_type = "type" -> _validate_type_action(action)
                 [] action_type = "open_app" -> _validate_app_action(action)
                 [] action_type = "file_read" -> _validate_file_read(action, files, cwd)
                 [] action_type = "file_write" -> _validate_file_write(action, cwd)
                 [] action_type = "key_press" -> _validate_key_action(action)
                 [] OTHER -> Verdict(TRUE, "Action type validated")

ConfirmationActions == << "file_write", "open_app", "close_app" >>
SensitivePathKeywords == << "system", "program", "windows" >>

\* A bool returned normally
Returns(b) == [raised |-> FALSE, exc |-> "", value |-> b]
\* An exception leaving a function that returns a bool
Raises(exc) == [raised |-> TRUE, exc |-> exc, value |-> FALSE]

\* The rules of requires_confirmation without the rule on file_path
confirmation_rules_kind_only(action) ==
    LET v == Get(action, "action", Str(""))
    IN IF ~IsStr(v)
       THEN Raises(NoLowerText(v))
       ELSE Returns(Lower(v.s) \in Range(ConfirmationActions))

\* The rules of requires_confirmation once confirmation is enabled
\* (safety.py lines 168-180)
confirmation_rules(action) ==
    LET v == Get(action, "action", Str(""))
    IN IF ~IsStr(v)
       THEN Raises(NoLowerText(v))
       ELSE IF Lower(v.s) \in Range(ConfirmationActions)
            THEN Returns(TRUE)
            ELSE LET file_path == Get(action, "file_path", Str(""))
                 IN IF ~Truthy(file_path)
                    THEN Returns(FALSE)
                    ELSE IF ~IsStr(file_path)
                         THEN Raises(NoLowerText(file_path))
                         ELSE Returns(\E i \in 1..Len(SensitivePathKeywords) :
                                         Contains(Lower(file_path.s), SensitivePathKeywords[i]))

\* requires_confirmation without its check of the configuration flag
requires_confirmation_unconfigured(action, flag) == confirmation_rules(action)

\* SafetyChecker.requires_confirmation; flag is config.CONFIRMATION_REQUIRED
requires_confirmation(action, flag) ==
    IF ~flag THEN Returns(FALSE) ELSE confirmation_rules(action)

(***************************************************************************)
(* logger.py                                                               *)
(***************************************************************************)
\* agent_logger.logger.handlers: logging.getLogger('ApplicationAgent') is given
\* no handler of its own; basicConfig attaches its two handlers to the root logger.
LoggerHandlers == <<>>

(***************************************************************************)
(* interpreter.py: CommandInterpreter                                      *)
(***************************************************************************)
\* The bound of the conversation history
HistoryCap == 10
\* The number of history entries handed to the adapter as context
ContextEntries == 3

\* seq[-k:]
LastK(seq, k) == IF Len(seq) > k THEN SubSeq(seq, Len(seq) - k + 1, Len(seq)) ELSE seq

\* A raw value is a dict (and not a str, a number or None)
IsDict(raw) == ~({"t", "s", "n", "f"} \subseteq DOMAIN raw)

\* not x, for a value that may be a dict
Falsy(x) == IF IsDict(x) THEN DOMAIN x = {} ELSE ~Truthy(x)

\* The example commands of suggest_commands
Suggestions ==
    << "Open Chrome and go to YouTube",
       "Write a note that says 'Meeting at 3 PM' in Notepad",
       "Move the mouse to the top left and click",
       "Type 'Hello world' and hit enter",
       "Read me the contents of desktop.txt",
       "Click at coordinates 500, 300",
       "Press the enter key",
       "Wait for 2 seconds",
       "Scroll down 3 times" >>

\* CommandInterpreter.suggest_commands: the first five suggestions, led by one
\* drawn from last_action when it is an open_app or a file_read
suggest_commands(last_action) ==
    SubSeq(IF Falsy(last_action)
           THEN Suggestions
           ELSE IF Get(last_action, "action", Null) = Str("open_app")
           THEN << "Close " \o ToText(Get(last_action, "app_name",
                                          Str("the application"))) >> \o Suggestions
           ELSE IF Get(last_action, "action", Null) = Str("file_read")
           THEN << "Write to " \o ToText(Get(last_action, "file_path",
                                             Str("that file"))) >> \o Suggestions
           ELSE Suggestions,
           1, 5)

\* CommandInterpreter._build_context (the ambient platform facts are left out)
_build_context(conversation_context, last_action) ==
    [recent_commands |-> LastK(conversation_context, ContextEntries),
     last_action |-> last_action]

\* _update_context appending its entry before the read of the handler raises
_update_context_append_first(conversation_context, last_action, command, action_data, now) ==
    [raised |-> TRUE, exc |-> "list index out of range",
     conversation_context |-> Append(conversation_context,
                                     [command |-> command,
                                      action |-> Get(action_data, "action", Null),
                                      reasoning |-> Get(action_data, "reasoning", Null),
                                      timestamp |-> now]),
     last_action |-> last_action]

\* _update_context with a handler to read and without its assignment to
\* last_action
_update_context_history_only(conversation_context, last_action, command, action_data, now) ==
    [raised |-> FALSE, exc |-> "",
     conversation_context |-> LastK(Append(conversation_context,
                                           [command |-> command,
                                            action |-> Get(action_data, "action", Null),
                                            reasoning |-> Get(action_data, "reasoning", Null),
                                            timestamp |-> now]),
                                    HistoryCap),
     last_action |-> last_action]

\* CommandInterpreter._update_context: [raised, exc, conversation_context, last_action].
\* now is the time the log record is made at.
_update_context(conversation_context, last_action, command, action_data, now) ==
    IF Len(LoggerHandlers) = 0
    THEN [raised |-> TRUE, exc |-> "list index out of range",
          conversation_context |-> conversation_context, last_action |-> last_action]
    ELSE LET entry == [command |-> command,
                       action |-> Get(action_data, "action", Null),
                       reasoning |-> Get(action_data, "reasoning", Null),
                       timestamp |-> now]
             appended == Append(conversation_context, entry)
         IN [raised |-> FALSE, exc |-> "",
             conversation_context |-> IF Len(appended) > HistoryCap
                                      THEN LastK(appended, HistoryCap)
                                      ELSE appended,
             last_action |-> action_data]

RequiredFields ==
    [k \in {"click", "type", "key_press", "open_app", "close_app", "file_read",
            "file_write", "mouse_move", "scroll", "wait"} |->
        CASE k = "click" -> << "x", "y" >>
          [] k = "type" -> << "text" >>
          [] k = "key_press" -> << "key" >>
          [] k = "open_app" -> << "app_name" >>
          [] k = "close_app" -> << "app_name" >>
          [] k = "file_read" -> << "file_path" >>
          [] k = "file_write" -> << "file_path", "content" >>
          [] k = "mouse_move" -> << "x", "y" >>
          [] k = "scroll" -> << "direction" >>
          [] k = "wait" -> << "seconds" >>]

\* CommandInterpreter.validate_action_format: [ok, reason]
validate_action_format(action_data) ==
    IF ~IsDict(action_data)
    THEN [ok |-> FALSE, reason |-> "Action data must be a dictionary"]
    ELSE IF "action" \notin DOMAIN action_data
         THEN [ok |-> FALSE, reason |-> "Missing 'action' field"]
         ELSE LET action_type == action_data["action"]
                  known == IsStr(action_type) /\ action_type.s \in DOMAIN RequiredFields
                  missing == IF known
                             THEN { i \in 1..Len(RequiredFields[action_type.s]) :
                                      RequiredFields[action_type.s][i] \notin DOMAIN action_data }
                             ELSE {}
              IN IF missing # {}
                 THEN [ok |-> FALSE,
                       reason |-> "Missing required field '"
                                  \o RequiredFields[action_type.s][MinOf(missing)]
                                  \o "' for action '" \o action_type.s \o "'"]
                 ELSE [ok |-> TRUE, reason |-> "Action format valid"]

\* SafetyChecker._format_action_details raises (len() of a text that is no str)
FormatDetailsRaises(action) ==
    /\ Get(action, "action", Str("")) = Str("type")
    /\ ~IsStr(Get(action, "text", Str("")))

\* A variant of show_confirmation_dialog that takes a dialog that could not be
\* shown for an approval
show_confirmation_dialog_fail_open(action, dialog) == dialog # "no"

\* SafetyChecker.show_confirmation_dialog; dialog is what the dialog does:
\* "yes", "no", or "error" when the window cannot be created or shown.
show_confirmation_dialog(action, dialog) ==
    IF FormatDetailsRaises(action) THEN FALSE ELSE dialog = "yes"

\* The result of process_command, with the calls it made and the state it leaves
Outcome(success, message, action_data, calls, cc, la) ==
    [raised |-> FALSE, exc |-> "", success |-> success, message |-> message,
     action_data |-> action_data, calls |-> calls,
     conversation_context |-> cc, last_action |-> la]
\* An exception raised inside the try block of process_command
Thrown(exc, calls, cc, la) ==
    [raised |-> TRUE, exc |-> exc, success |-> FALSE, message |-> Null,
     action_data |-> Null, calls |-> calls,
     conversation_context |-> cc, last_action |-> la]

\* clarification or fallback
OrElse(clarification, fallback) == IF clarification # "" THEN Str(clarification) ELSE fallback

\* Step 5 of process_command (interpreter.py lines 53-56): store the context
\* and report success
Step5_store(cc, la, user_command, env, action_data, calls) ==
    Bind(_update_context(cc, la, user_command, action_data, env.now), LAMBDA u :
         IF u.raised
         THEN Thrown(u.exc, Append(calls, "_update_context"),
                     u.conversation_context, u.last_action)
         ELSE Outcome(TRUE,
                      Str("Command interpreted successfully: "
                          \o ToText(Get(action_data, "reasoning",
                                        Str("No reasoning provided")))),
                      action_data, Append(calls, "_update_context"),
                      u.conversation_context, u.last_action))

\* Step 4 without its return when the operator denies
Step4_confirmation_unheeded(cc, la, user_command, env, action_data, calls) ==
    Bind(requires_confirmation(action_data, env.flag), LAMBDA rc :
         IF rc.raised
         THEN Thrown(rc.exc, Append(calls, "requires_confirmation"), cc, la)
         ELSE Step5_store(cc, la, user_command, env, action_data,
                          IF rc.value
                          THEN calls \o << "requires_confirmation",
                                           "show_confirmation_dialog" >>
                          ELSE Append(calls, "requires_confirmation")))

\* Step 4 of process_command (interpreter.py lines 47-51): user confirmation
Step4_confirmation(cc, la, user_command, env, action_data, calls) ==
    Bind(requires_confirmation(action_data, env.flag), LAMBDA rc :
         IF rc.raised
         THEN Thrown(rc.exc, Append(calls, "requires_confirmation"), cc, la)
         ELSE IF ~rc.value
         THEN Step5_store(cc, la, user_command, env, action_data,
                          Append(calls, "requires_confirmation"))
         ELSE IF ~show_confirmation_dialog(action_data, env.dialog)
         THEN Outcome(FALSE, Str("Action cancelled by user"), action_data,
                      calls \o << "requires_confirmation", "show_confirmation_dialog" >>,
                      cc, la)
         ELSE Step5_store(cc, la, user_command, env, action_data,
                          calls \o << "requires_confirmation",
                                      "show_confirmation_dialog" >>))

\* Step 3 without its return when the action is unsafe
Step3_safety_unheeded(cc, la, user_command, env, action_data, calls) ==
    Bind(validate_action(action_data, env.files, env.cwd), LAMBDA v :
         IF v.raised
         THEN Thrown(v.reason, Append(calls, "validate_action"), cc, la)
         ELSE Step4_confirmation(cc, la, user_command, env, action_data,
                                 Append(calls, "validate_action")))

\* Step 3 of process_command (interpreter.py lines 39-45): safety validation
Step3_safety(cc, la, user_command, env, action_data, calls) ==
    Bind(validate_action(action_data, env.files, env.cwd), LAMBDA v :
         IF v.raised
         THEN Thrown(v.reason, Append(calls, "validate_action"), cc, la)
         ELSE IF ~v.safe
         THEN Outcome(FALSE, OrElse(env.clar, Str("Safety check failed: " \o v.reason)),
                      action_data, calls \o << "validate_action", "get_clarification" >>,
                      cc, la)
         ELSE Step4_confirmation(cc, la, user_command, env, action_data,
                                 Append(calls, "validate_action")))

\* Step 2 without its return on an error response
Step2_error_unheeded(cc, la, user_command, env, action_data, calls) ==
    Step3_safety(cc, la, user_command, env, action_data, calls)

\* Step 2 of process_command (interpreter.py lines 33-37): an error response
Step2_error(cc, la, user_command, env, action_data, calls) ==
    IF Get(action_data, "action", Null) = Str("error")
    THEN Outcome(FALSE, OrElse(env.clar, Get(action_data, "error", Str("Unknown error"))),
                 action_data, Append(calls, "get_clarification"), cc, la)
    ELSE Step3_safety(cc, la, user_command, env, action_data, calls)

\* The try block of process_command (interpreter.py lines 24-56).
\* env.reply: what gpt_interface.interpret_command returns (None or an action);
\* env.clar: what gpt_interface.get_clarification returns; env.dialog: the
\* confirmation dialog; env.flag: config.CONFIRMATION_REQUIRED; env.files and
\* env.cwd: the file system and the current directory.
process_command_try(cc, la, user_command, env) ==
    IF Falsy(env.reply)
    THEN Outcome(FALSE, Str("Failed to interpret command"), Null,
                 << "_build_context", "interpret_command" >>, cc, la)
    ELSE Step2_error(cc, la, user_command, env, env.reply,
                     << "_build_context", "interpret_command" >>)

\* process_command without its except clause
process_command_uncaught(cc, la, user_command, env) ==
    process_command_try(cc, la, user_command, env)

\* CommandInterpreter.process_command: the try block and its except clause
process_command(cc, la, user_command, env) ==
    Bind(process_command_try(cc, la, user_command, env), LAMBDA r :
         IF r.raised
         THEN Outcome(FALSE, Str("Error processing command: " \o r.exc), Null,
                      Append(r.calls, "log_error"), r.conversation_context, r.last_action)
         ELSE r)

(***************************************************************************)
(* actions.py: ActionExecutor                                              *)
(***************************************************************************)
\* The ceiling of a wait, in seconds
MaxWaitSeconds == 60
\* The length of the preview a file read returns
ReadPreviewCap == 1000
\* The default number of scroll clicks
DefaultScrollClicks == 3

\* A string of decimal digits, not empty
IsDigits(s) == s # "" /\ \A i \in 1..Len(s) : Contains(DigitChars, SubSeq(s, i, i))

RECURSIVE DigitsValue(_)
DigitsValue(s) ==
    IF s = "" THEN 0
    ELSE 10 * DigitsValue(SubSeq(s, 1, Len(s) - 1))
         + (CHOOSE d \in 0..9 : SubSeq(DigitChars, d + 1, d + 1) = SubSeq(s, Len(s), Len(s)))

\* int(v): [raised, value].  A float is truncated towards zero; a str is parsed
\* as an optionally signed decimal literal.
PyInt(v) ==
    CASE IsNum(v) -> [raised |-> FALSE, value |-> v.n]
      [] IsNull(v) -> [raised |-> TRUE, value |-> 0]
      [] OTHER ->
           LET t == Strip(v.s)
               neg == StartsWith(t, "-")
               body == IF neg \/ StartsWith(t, "+") THEN SubSeq(t, 2, Len(t)) ELSE t
           IN IF IsDigits(body)
              THEN [raised |-> FALSE,
                    value |-> IF neg THEN 0 - DigitsValue(body) ELSE DigitsValue(body)]
              ELSE [raised |-> TRUE, value |-> 0]

\* float(v): [raised, value], value a number value.  A str is parsed as
\* digits, optionally followed by a point and one digit.
PyFloat(v) ==
    CASE IsNum(v) -> [raised |-> FALSE, value |-> v]
      [] IsNull(v) -> [raised |-> TRUE, value |-> Num(0, 0)]
      [] OTHER ->
           LET t == Strip(v.s)
               dot == RFind(t, ".")
               whole == IF dot = 0 THEN t ELSE SubSeq(t, 1, dot - 1)
               frac == IF dot = 0 THEN "0" ELSE SubSeq(t, dot + 1, Len(t))
           IN IF IsDigits(whole) /\ IsDigits(frac) /\ Len(frac) = 1
              THEN [raised |-> FALSE, value |-> Num(DigitsValue(whole), DigitsValue(frac))]
              ELSE [raised |-> TRUE, value |-> Num(0, 0)]

RECURSIVE Replace(_, _)
\* s.replace(old, '')
Replace(s, old) ==
    IF s = "" THEN ""
    ELSE IF StartsWith(s, old)
         THEN Replace(SubSeq(s, Len(old) + 1, Len(s)), old)
         ELSE SubSeq(s, 1, 1) \o Replace(SubSeq(s, 2, Len(s)), old)

RECURSIVE StripAll(_)
\* [k.strip() for k in keys]
StripAll(keys) == IF keys = <<>> THEN <<>> ELSE <<Strip(Head(keys))>> \o StripAll(Tail(keys))

\* One call of an OS primitive
Event(op, args) == [op |-> op, args |-> args]

\* What a sub-executor returns: (success, message), the OS primitives it called
\* with success, and the registry and the file system it leaves
Done(success, message, events, rp, files) ==
    [raised |-> FALSE, exc |-> "", success |-> success, message |-> message,
     events |-> events, running_processes |-> rp, files |-> files]

\* os.pyautogui, os.psutil: the modules are importable; os.screen: pyautogui.size();
\* os.prim: what the OS primitive called does, "ok", "raise" or, for a spawn,
\* "notfound"; os.pid: the pid of a spawned process; os.matches: the running
\* processes that close_app finds and terminates; os.cwd: os.getcwd().
_execute_click(action_data, rp, files, os) ==
    IF ~os.pyautogui THEN Done(FALSE, "pyautogui not available", <<>>, rp, files)
    ELSE IF "x" \notin DOMAIN action_data \/ "y" \notin DOMAIN action_data
            \/ PyInt(action_data["x"]).raised \/ PyInt(action_data["y"]).raised
    THEN Done(FALSE, "Click failed", <<>>, rp, files)
    ELSE LET x == PyInt(action_data["x"]).value
             y == PyInt(action_data["y"]).value
             where == "(" \o ToText(Num(x, 0)) \o ", " \o ToText(Num(y, 0)) \o ")"
         IN IF ~(0 <= x /\ x <= os.screen[1] /\ 0 <= y /\ y <= os.screen[2])
            THEN Done(FALSE, "Coordinates " \o where \o " are outside screen bounds",
                      <<>>, rp, files)
            ELSE IF os.prim # "ok"
                 THEN Done(FALSE, "Click failed", <<>>, rp, files)
                 ELSE Done(TRUE, "Clicked at " \o where,
                           << Event("click", << ToText(Num(x, 0)), ToText(Num(y, 0)) >>) >>,
                           rp, files)

_execute_type(action_data, rp, files, os) ==
    IF ~os.pyautogui THEN Done(FALSE, "pyautogui not available", <<>>, rp, files)
    ELSE IF "text" \notin DOMAIN action_data \/ ~IsStr(action_data["text"]) \/ os.prim # "ok"
    THEN Done(FALSE, "Type failed", <<>>, rp, files)
    ELSE Done(TRUE, "Typed " \o NatText(Len(action_data["text"].s)) \o " characters",
              << Event("typewrite", << action_data["text"].s >>) >>, rp, files)

_execute_key_press(action_data, rp, files, os) ==
    IF ~os.pyautogui THEN Done(FALSE, "pyautogui not available", <<>>, rp, files)
    ELSE IF "key" \notin DOMAIN action_data \/ ~IsStr(action_data["key"]) \/ os.prim # "ok"
    THEN Done(FALSE, "Key press failed", <<>>, rp, files)
    ELSE LET key == action_data["key"].s
         IN Done(TRUE, "Pressed key: " \o key,
                 IF Contains(key, "+")
                 THEN << Event("hotkey", StripAll(Split(key, "+"))) >>
                 ELSE << Event("press", << key >>) >>,
                 rp, files)

\* ActionExecutor._launch_unix_app
_launch_unix_app(v, rp, files, os) ==
    IF ~IsStr(v) THEN Done(FALSE, "Unix app launch error: " \o
                                  "'" \o TypeName(v) \o "' object has no attribute 'replace'",
                           <<>>, rp, files)
    ELSE LET app_name == Replace(v.s, ".exe")
         IN CASE os.prim = "notfound" ->
                    Done(FALSE, "Application not found: " \o app_name, <<>>, rp, files)
              [] os.prim = "raise" ->
                    Done(FALSE, "Unix app launch error", <<>>, rp, files)
              [] OTHER ->
                    Done(TRUE, "Launched " \o app_name,
                         << Event("Popen", << app_name, NatText(os.pid) >>) >>,
                         [n \in DOMAIN rp \cup {app_name} |->
                             IF n = app_name THEN os.pid ELSE rp[n]],
                         files)

_execute_open_app(action_data, rp, files, os) ==
    IF "app_name" \notin DOMAIN action_data
    THEN Done(FALSE, "App launch failed: 'app_name'", <<>>, rp, files)
    ELSE _launch_unix_app(action_data["app_name"], rp, files, os)

_execute_close_app(action_data, rp, files, os) ==
    IF "app_name" \notin DOMAIN action_data
    THEN Done(FALSE, "App close failed: 'app_name'", <<>>, rp, files)
    ELSE IF ~os.psutil
    THEN Done(FALSE, "psutil not available for app management", <<>>, rp, files)
    ELSE IF ~IsStr(action_data["app_name"]) \/ os.prim = "raise"
    THEN Done(FALSE, "App close failed", <<>>, rp, files)
    ELSE LET app_name == action_data["app_name"].s
         IN IF os.matches > 0
            THEN Done(TRUE, "Terminated " \o NatText(os.matches) \o " instance(s) of " \o app_name,
                      [i \in 1..os.matches |-> Event("terminate", << app_name >>)], rp, files)
            ELSE Done(FALSE, "No running instances of " \o app_name \o " found",
                      <<>>, rp, files)

_execute_file_read(action_data, rp, files, os) ==
    IF "file_path" \notin DOMAIN action_data \/ ~IsStr(action_data["file_path"])
    THEN Done(FALSE, "File read failed", <<>>, rp, files)
    ELSE LET file_path == action_data["file_path"].s
             path == Resolve(file_path, os.cwd)
         IN IF path \notin DOMAIN files
            THEN Done(FALSE, "File does not exist: " \o file_path, <<>>, rp, files)
            ELSE IF os.prim # "ok"
                 THEN Done(FALSE, "File read failed", <<>>, rp, files)
                 ELSE LET content == files[path].content
                      IN Done(TRUE,
                              "File content:\n" \o
                                 (IF Len(content) > ReadPreviewCap
                                  THEN SubSeq(content, 1, ReadPreviewCap) \o "... (truncated)"
                                  ELSE content),
                              << Event("read", << path >>) >>, rp, files)

_execute_file_write(action_data, rp, files, os) ==
    IF \/ "file_path" \notin DOMAIN action_data
       \/ "content" \notin DOMAIN action_data
       \/ ~IsStr(action_data["file_path"])
       \/ ~IsStr(Get(action_data, "mode", Str("w")))
       \/ Get(action_data, "mode", Str("w")).s \notin {"w", "a"}
       \/ os.prim # "ok"
       \/ ~IsStr(action_data["content"])
    THEN Done(FALSE, "File write failed", <<>>, rp, files)
    ELSE LET file_path == action_data["file_path"].s
             content == action_data["content"].s
             path == Resolve(file_path, os.cwd)
             old == IF path \in DOMAIN files /\ Get(action_data, "mode", Str("w")).s = "a"
                    THEN files[path].content ELSE ""
             new == [size |-> Len(old \o content), content |-> old \o content]
         IN Done(TRUE, "Successfully wrote " \o NatText(Len(content))
                       \o " characters to " \o file_path,
                 << Event("write", << path >>) >>, rp,
                 [q \in DOMAIN files \cup {path} |-> IF q = path THEN new ELSE files[q]])

_execute_mouse_move(action_data, rp, files, os) ==
    IF ~os.pyautogui THEN Done(FALSE, "pyautogui not available", <<>>, rp, files)
    ELSE IF "x" \notin DOMAIN action_data \/ "y" \notin DOMAIN action_data
            \/ PyInt(action_data["x"]).raised \/ PyInt(action_data["y"]).raised
            \/ os.prim # "ok"
    THEN Done(FALSE, "Mouse move failed", <<>>, rp, files)
    ELSE LET x == ToText(Num(PyInt(action_data["x"]).value, 0))
             y == ToText(Num(PyInt(action_data["y"]).value, 0))
         IN Done(TRUE, "Moved mouse to (" \o x \o ", " \o y \o ")",
                 << Event("moveTo", << x, y >>) >>, rp, files)

_execute_scroll(action_data, rp, files, os) ==
    IF ~os.pyautogui THEN Done(FALSE, "pyautogui not available", <<>>, rp, files)
    ELSE IF "direction" \notin DOMAIN action_data \/ ~IsStr(action_data["direction"])
            \/ (Lower(action_data["direction"].s) # "up"
                /\ ~IsNum(Get(action_data, "clicks", Num(DefaultScrollClicks, 0))))
            \/ os.prim # "ok"
    THEN Done(FALSE, "Scroll failed", <<>>, rp, files)
    ELSE LET direction == Lower(action_data["direction"].s)
             clicks == Get(action_data, "clicks", Num(DefaultScrollClicks, 0))
         IN Done(TRUE, "Scrolled " \o direction \o " " \o ToText(clicks) \o " clicks",
                 << Event("scroll", << IF direction = "up" THEN ToText(clicks)
                                       ELSE ToText(Num(0 - clicks.n, clicks.f)) >>) >>,
                 rp, files)

\* _execute_wait without its limit on the wait time
_execute_wait_unlimited(action_data, rp, files, os) ==
    IF "seconds" \notin DOMAIN action_data \/ PyFloat(action_data["seconds"]).raised
    THEN Done(FALSE, "Wait failed", <<>>, rp, files)
    ELSE LET seconds == PyFloat(action_data["seconds"]).value
         IN IF seconds.n < 0 \/ os.prim # "ok"
            THEN Done(FALSE, "Wait failed", <<>>, rp, files)
            ELSE Done(TRUE, "Waited for " \o FloatText(seconds) \o " seconds",
                      << Event("sleep", << FloatText(seconds) >>) >>, rp, files)

_execute_wait(action_data, rp, files, os) ==
    IF "seconds" \notin DOMAIN action_data \/ PyFloat(action_data["seconds"]).raised
    THEN Done(FALSE, "Wait failed", <<>>, rp, files)
    ELSE LET seconds == PyFloat(action_data["seconds"]).value
         IN IF NumGtInt(seconds, MaxWaitSeconds)
            THEN Done(FALSE, "Wait time too long (max 60 seconds)", <<>>, rp, files)
            ELSE IF seconds.n < 0 \/ os.prim # "ok"
                 THEN Done(FALSE, "Wait failed", <<>>, rp, files)
                 ELSE Done(TRUE, "Waited for " \o FloatText(seconds) \o " seconds",
                           << Event("sleep", << FloatText(seconds) >>) >>, rp, files)

\* What becomes of a recorded process when cleanup reaches it: "ok", it is alive
\* and terminate() returns; "raise", it is alive and psutil raises (access
\* denied, or the process ends between pid_exists and terminate); "gone",
\* pid_exists(pid) is false
ProcessFates == { "ok", "raise", "gone" }

\* ActionExecutor.cleanup: the pids it called terminate() for, the pids whose
\* failure it logged, and whether it raised.  rp is the registry, fate[app_name]
\* what becomes of its process.
cleanup(rp, psutil_imported, fate) ==
    [raised |-> FALSE,
     attempted |-> { rp[app_name] : app_name \in
                        { a \in DOMAIN rp : psutil_imported /\ fate[a] # "gone" } },
     terminated |-> { rp[app_name] : app_name \in
                        { a \in DOMAIN rp : psutil_imported /\ fate[a] = "ok" } },
     logged |-> { rp[app_name] : app_name \in
                        { a \in DOMAIN rp : psutil_imported /\ fate[a] = "raise" } }]

\* What execute_action returns or raises, and the registry and files it leaves
execute_action_result(action_data, rp, files, os) ==
    LET v == Get(action_data, "action", Str(""))
    IN IF ~IsStr(v)
       THEN [raised |-> TRUE, exc |-> NoLowerText(v), success |-> FALSE, message |-> "",
             events |-> <<>>, running_processes |-> rp, files |-> files]
       ELSE LET action_type == Lower(v.s)
            IN CASE action_type = "click" -> _execute_click(action_data, rp, files, os)
                 [] action_type = "type" -> _execute_type(action_data, rp, files, os)
                 [] action_type = "key_press" -> _execute_key_press(action_data, rp, files, os)
                 [] action_type = "open_app" -> _execute_open_app(action_data, rp, files, os)
                 [] action_type = "close_app" -> _execute_close_app(action_data, rp, files, os)
                 [] action_type = "file_read" -> _execute_file_read(action_data, rp, files, os)
                 [] action_type = "file_write" -> _execute_file_write(action_data, rp, files, os)
                 [] action_type = "mouse_move" -> _execute_mouse_move(action_data, rp, files, os)
                 [] action_type = "scroll" -> _execute_scroll(action_data, rp, files, os)
                 [] action_type = "wait" -> _execute_wait(action_data, rp, files, os)
                 [] OTHER -> Done(FALSE, "Unknown action type: " \o action_type,
                                  <<>>, rp, files)

\* The mapping after _launch_unix_app has stored the name it launches in it
WithLaunchedName(action_data) ==
    IF "app_name" \in DOMAIN action_data /\ IsStr(action_data["app_name"])
    THEN [action_data EXCEPT !["app_name"] = Str(Replace(@.s, ".exe"))]
    ELSE action_data

\* execute_action with the launched name stored in the mapping it was given
execute_action_storing_name(action_data, rp, files, os) ==
    [action_data |-> WithLaunchedName(action_data)]
    @@ execute_action_result(action_data, rp, files, os)

\* ActionExecutor.execute_action.  action_data in the result is the mapping as
\* the call leaves it: the lower-cased kind (line 64) and the name without
\* '.exe' (line 204) are held in local variables, and no statement of
\* actions.py assigns to a key of the mapping.
execute_action(action_data, rp, files, os) ==
    [action_data |-> action_data] @@ execute_action_result(action_data, rp, files, os)

(***************************************************************************)
(* cli.py and main.py: the callers of the pipeline                         *)
(***************************************************************************)
HighRiskActions == << "file_write", "open_app", "close_app" >>

\* ApplicationAgentCLI._requires_cli_confirmation
_requires_cli_confirmation(action_data) ==
    LET v == Get(action_data, "action", Str(""))
    IN IF ~IsStr(v) THEN Raises(NoLowerText(v))
       ELSE Returns(Lower(v.s) \in Range(HighRiskActions))

\* What a caller has done with one command: the result of process_command
\* (success, message, action_data), the calls made in order, the result of
\* execute_action when it was called, what the caller displays, and the state left.
Handled(caller, command, env, r, calls, x, shown) ==
    [op |-> caller, command |-> command, env |-> env,
     success |-> r.success, message |-> r.message, action_data |-> r.action_data,
     raised |-> r.raised, calls |-> calls,
     executed |-> x.called, exec_raised |-> x.raised, exec_success |-> x.success,
     exec_message |-> x.message, events |-> x.events, shown |-> shown,
     conversation_context |-> r.conversation_context, last_action |-> r.last_action,
     running_processes |-> x.running_processes, files |-> x.files]

\* execute_action was not called
NotExecuted(rp, files) ==
    [called |-> FALSE, raised |-> FALSE, success |-> FALSE, message |-> "",
     events |-> <<>>, running_processes |-> rp, files |-> files]

\* execute_action was called and did x
Executed(x) ==
    [called |-> TRUE, raised |-> x.raised, success |-> x.success, message |-> x.message,
     events |-> x.events, running_processes |-> x.running_processes, files |-> x.files]

\* What the caller shows after execute_action
ShownAfter(x) == IF x.raised THEN "Unexpected error: " \o x.exc
                 ELSE IF x.success THEN x.message
                 ELSE "Execution failed: " \o x.message

\* What a caller has done once execute_action returned x
AfterExecute(caller, command, env, r, calls, x) ==
    Handled(caller, command, env, r, calls, Executed(x), ShownAfter(x))

\* _process_command without its return when process_command reports a failure
cli_process_command_unheeded(cc, la, rp, files, command, env, os) ==
    Bind(process_command(cc, la, command, env), LAMBDA r :
         IF Falsy(r.action_data)
         THEN Handled("cli", command, env, r, r.calls, NotExecuted(rp, files),
                      ToText(r.message))
         ELSE AfterExecute("cli", command, env, r, Append(r.calls, "execute_action"),
                           execute_action(r.action_data, rp, files, os)))

\* ApplicationAgentCLI._process_command; env.cli is the operator's answer to the
\* CLI prompt
cli_process_command(cc, la, rp, files, command, env, os) ==
    Bind(process_command(cc, la, command, env), LAMBDA r :
         IF r.raised
         THEN Handled("cli", command, env, r, r.calls, NotExecuted(rp, files),
                      "Unexpected error: " \o r.exc)
         ELSE IF ~r.success
         THEN Handled("cli", command, env, r, r.calls, NotExecuted(rp, files),
                      ToText(r.message))
         ELSE IF Falsy(r.action_data)
         THEN Handled("cli", command, env, r, r.calls, NotExecuted(rp, files),
                      ToText(r.message))
         ELSE IF ~env.flag
         THEN AfterExecute("cli", command, env, r, Append(r.calls, "execute_action"),
                           execute_action(r.action_data, rp, files, os))
         ELSE Bind(_requires_cli_confirmation(r.action_data), LAMBDA ask :
                   IF ask.raised
                   THEN Handled("cli", command, env, r,
                                Append(r.calls, "_requires_cli_confirmation"),
                                NotExecuted(rp, files), "Unexpected error: " \o ask.exc)
                   ELSE IF ~ask.value
                   THEN AfterExecute("cli", command, env, r,
                                     r.calls \o << "_requires_cli_confirmation",
                                                   "execute_action" >>,
                                     execute_action(r.action_data, rp, files, os))
                   ELSE IF env.cli # "y"
                   THEN Handled("cli", command, env, r,
                                r.calls \o << "_requires_cli_confirmation",
                                              "_get_user_confirmation" >>,
                                NotExecuted(rp, files), "Action cancelled by user")
                   ELSE AfterExecute("cli", command, env, r,
                                     r.calls \o << "_requires_cli_confirmation",
                                                   "_get_user_confirmation",
                                                   "execute_action" >>,
                                     execute_action(r.action_data, rp, files, os))))

\* ApplicationAgentGUI._execute_command_thread
gui_execute_command_thread(cc, la, rp, files, command, env, os) ==
    Bind(process_command(cc, la, command, env), LAMBDA r :
         IF r.raised
         THEN Handled("gui", command, env, r, r.calls, NotExecuted(rp, files),
                      "Unexpected error: " \o r.exc)
         ELSE IF ~r.success
         THEN Handled("gui", command, env, r, r.calls, NotExecuted(rp, files),
                      ToText(r.message))
         ELSE IF Falsy(r.action_data)
         THEN Handled("gui", command, env, r, r.calls, NotExecuted(rp, files),
                      ToText(r.message))
         ELSE AfterExecute("gui", command, env, r, Append(r.calls, "execute_action"),
                           execute_action(r.action_data, rp, files, os)))

(***************************************************************************)
(* gpt_interface.py: GPTInterface                                          *)
(***************************************************************************)
\* What json.loads makes of a reply that is a JSON list, and what stands for a
\* reply json.loads cannot decode
JsonList == [t |-> "list", s |-> "", n |-> 0, f |-> 0]
NotJson == [t |-> "undecodable", s |-> "", n |-> 0, f |-> 0]

\* The keys of a reply that the flattened form does not copy as parameters
\* (gpt_interface.py line 171)
NotParameters == { "action", "reasoning", "confidence", "safety_notes" }

\* The three fields every action of the adapter starts with
\* (gpt_interface.py lines 155-162)
StandardFormat(parsed) ==
    [action |-> parsed.action,
     reasoning |-> Get(parsed, "reasoning", Str("No reasoning provided")),
     confidence |-> Get(parsed, "confidence", Num(0, 5))]

\* _parse_gpt_response reading the parameters at the top level only
_parse_gpt_response_top_level_only(parsed) ==
    IF parsed = NotJson \/ ~IsDict(parsed) \/ "action" \notin DOMAIN parsed
    THEN Null
    ELSE IF parsed.action # Str("error")
         THEN [k \in DOMAIN parsed \ NotParameters |-> parsed[k]] @@ StandardFormat(parsed)
         ELSE [error |-> Get(parsed, "error", Str("Unknown error"))] @@ StandardFormat(parsed)

\* GPTInterface._parse_gpt_response from the value json.loads returns (lines
\* 144-183); Null is the None returned when anything raised.  dict.update lets
\* the keys of parameters replace those of the standard format.
_parse_gpt_response(parsed) ==
    IF parsed = NotJson \/ ~IsDict(parsed) \/ "action" \notin DOMAIN parsed
    THEN Null
    ELSE IF parsed.action # Str("error")
         THEN IF "parameters" \in DOMAIN parsed
              THEN IF IsDict(parsed.parameters)
                   THEN parsed.parameters @@ StandardFormat(parsed)
                   ELSE Null
              ELSE [k \in DOMAIN parsed \ NotParameters |-> parsed[k]]
                   @@ StandardFormat(parsed)
         ELSE [error |-> Get(parsed, "error", Str("Unknown error"))] @@ StandardFormat(parsed)

(***************************************************************************)
(* The state                                                               *)
(***************************************************************************)
VARIABLES
    conversation_context,   \* CommandInterpreter.conversation_context
    last_action,            \* CommandInterpreter.last_action (Null is None)
    running_processes,      \* ActionExecutor.running_processes: app name -> pid
    files,                  \* the file system: resolved path -> [size, content]
    flag,                   \* config.CONFIRMATION_REQUIRED
    pyautogui,              \* actions.pyautogui was imported
    psutil,                 \* actions.psutil was imported
    cwd,                    \* os.getcwd()
    clock,                  \* the number of calls handled so far
    accepted,               \* the commands that passed interpretation, validation
                            \* and confirmation (reached line 54 of interpreter.py)
    spawned,                \* the processes spawned so far: (name launched, pid)
    last,                   \* what the last call did
    workers                 \* the GUI's worker threads: where each one is

vars == << conversation_context, last_action, running_processes, files, flag,
           pyautogui, psutil, cwd, clock, accepted, spawned, last, workers >>

\* The bounds of the model
MaxCommands == 2
MaxCalls == 2
\* The number of worker threads of the GUI that may be alive at once
MaxThreads == 2

Threads == 1..MaxThreads
\* A worker thread that is not running
Idle == [pc |-> "idle"]

Commands == { "open notepad", "wait a bit" }
Cwds == { "/home/u", "/etc" }

\* What the adapter adds to every action it returns (gpt_interface.py lines 158-162)
Adapted(fields) == fields @@ [reasoning |-> Str("r"), confidence |-> Num(0, 5)]

InitialFiles ==
    [q \in { "/home/u/notes.txt", "/home/u/system.txt", "/home/u/big.bin" } |->
        CASE q = "/home/u/notes.txt" -> [size |-> 5, content |-> "hello"]
          [] q = "/home/u/system.txt" -> [size |-> 3, content |-> "sys"]
          [] OTHER -> [size |-> FileReadSizeCap + 1, content |-> ""]]

\* The actions the adapter may return for a command (None when it fails)
Replies ==
    { Null,
      Adapted([action |-> Str("error"), error |-> Str("cannot do that")]),
      Adapted([action |-> Str("error"), error |-> Str("")]),
      Adapted([action |-> Str("ERROR"), error |-> Str("cannot do that")]),
      Adapted([action |-> Num(5, 0)]),
      Adapted([action |-> Str("wait"), seconds |-> Num(0, 1)]),
      Adapted([action |-> Str("wait")]),
      Adapted([action |-> Str("Shell"), command |-> Str("ls")]),
      Adapted([action |-> Str("click"), x |-> Num(100, 0), y |-> Num(200, 0)]),
      Adapted([action |-> Str("click"), x |-> Num(5000, 0), y |-> Num(10, 0)]),
      Adapted([action |-> Str("type"), text |-> Str("Hello world")]),
      Adapted([action |-> Str("type"), text |-> Str("RM -RF /")]),
      Adapted([action |-> Str("type"), text |-> Num(7, 0)]),
      Adapted([action |-> Str("key_press"), key |-> Str("Alt+F4")]),
      Adapted([action |-> Str("open_app"), app_name |-> Str("notepad.exe")]),
      Adapted([action |-> Str("open_app"), app_name |-> Str("regedit.exe")]),
      Adapted([action |-> Str("file_read"), file_path |-> Str("/home/u/system.txt")]),
      Adapted([action |-> Str("file_read"), file_path |-> Num(3, 0)]),
      Adapted([action |-> Str("file_write"), file_path |-> Str("/etc/passwd"),
               content |-> Str("x")]),
      Adapted([action |-> Str("file_write"), file_path |-> Str("notes.txt"),
               content |-> Str("x")]) }

Clarifications == { "", "Try a safer command." }
Dialogs == { "yes", "no", "error" }
CliAnswers == { "y", "n" }
Prims == { "ok", "raise", "notfound" }
Screens == { << 1920, 1080 >> }

\* The environment of one command
Env(reply, clar, dialog, cli) ==
    [reply |-> reply, clar |-> clar, dialog |-> dialog, cli |-> cli,
     flag |-> flag, files |-> files, cwd |-> cwd, now |-> clock]

\* The operating system during one call of execute_action
Os(prim, matches) ==
    [pyautogui |-> pyautogui, psutil |-> psutil, screen |-> CHOOSE sc \in Screens : TRUE,
     prim |-> prim, pid |-> Len(spawned) + 1, matches |-> matches, cwd |-> cwd]

Init ==
    /\ conversation_context = <<>>
    /\ last_action = Null
    /\ running_processes = << >>
    /\ files = InitialFiles
    /\ flag \in BOOLEAN
    /\ pyautogui \in BOOLEAN
    /\ psutil \in BOOLEAN
    /\ cwd \in Cwds
    /\ clock = 0
    /\ accepted = <<>>
    /\ spawned = <<>>
    /\ last = [op |-> "init"]
    /\ workers = [t \in Threads |-> Idle]

\* The pids the events of a call spawned
RECURSIVE SpawnedBy(_)
SpawnedBy(events) ==
    IF events = <<>> THEN <<>>
    ELSE (IF Head(events).op = "Popen" THEN << Head(events).args >> ELSE <<>>)
         \o SpawnedBy(Tail(events))

\* The state after a caller handled one command with outcome h
AfterCommand(h) ==
    /\ last' = h
    /\ conversation_context' = h.conversation_context
    /\ last_action' = h.last_action
    /\ running_processes' = h.running_processes
    /\ files' = h.files
    /\ spawned' = spawned \o SpawnedBy(h.events)
    /\ accepted' = IF "_update_context" \in Range(h.calls)
                   THEN Append(accepted, h.command) ELSE accepted
    /\ clock' = clock + 1
    /\ UNCHANGED << flag, pyautogui, psutil, cwd, workers >>

\* A call was made
Called(calls, name) == name \in Range(calls)

\* The values of an input that have to be tried: all of them when the command
\* consumes the input (the call that reads it is made when every answer is an
\* approval and every primitive succeeds), and one otherwise, since an input that
\* is never read cannot change what the command does.
Tried(approved, name, values, default) ==
    IF Called(approved.calls, name) THEN values ELSE { default }

\* A command entered at the CLI prompt (cli.py line 65)
CliCommand ==
    /\ clock < MaxCommands
    /\ \E command \in Commands, reply \in Replies :
          \E approved \in { cli_process_command(conversation_context, last_action,
                                                running_processes, files, command,
                                                Env(reply, "", "yes", "y"), Os("ok", 0)) } :
             \E clar \in Tried(approved, "get_clarification", Clarifications, ""),
                dialog \in Tried(approved, "show_confirmation_dialog", Dialogs, "yes"),
                cli \in Tried(approved, "_get_user_confirmation", CliAnswers, "y"),
                prim \in Tried(approved, "execute_action", Prims, "ok"),
                matches \in Tried(approved, "execute_action", 0..1, 0) :
                AfterCommand(cli_process_command(conversation_context, last_action,
                                                 running_processes, files, command,
                                                 Env(reply, clar, dialog, cli),
                                                 Os(prim, matches)))

\* A command entered in the GUI (main.py lines 195-209), run by its worker thread
GuiCommand ==
    /\ clock < MaxCommands
    /\ \E command \in Commands, reply \in Replies :
          \E approved \in { gui_execute_command_thread(conversation_context, last_action,
                                                       running_processes, files, command,
                                                       Env(reply, "", "yes", "y"),
                                                       Os("ok", 0)) } :
             \E clar \in Tried(approved, "get_clarification", Clarifications, ""),
                dialog \in Tried(approved, "show_confirmation_dialog", Dialogs, "yes"),
                prim \in Tried(approved, "execute_action", Prims, "ok"),
                matches \in Tried(approved, "execute_action", 0..1, 0) :
                AfterCommand(gui_execute_command_thread(conversation_context, last_action,
                                                        running_processes, files, command,
                                                        Env(reply, clar, dialog, "y"),
                                                        Os(prim, matches)))

Next == CliCommand \/ GuiCommand

Spec == Init /\ [][Next]_vars

(***************************************************************************)
(* The GUI with its worker threads: _execute_command starts one thread per *)
(* command entered, and Enter in the command entry starts one while        *)
(* another is still running (main.py lines 191-209).  No lock guards the   *)
(* interpreter or the executor, so the threads interleave; a thread is     *)
(* followed up to its call of _update_context and from there to its end.   *)
(***************************************************************************)
\* What the adapter returns to a worker thread
WorkerReplies ==
    { Adapted([action |-> Str("error"), error |-> Str("cannot do that")]),
      Adapted([action |-> Str("wait"), seconds |-> Num(0, 1)]),
      Adapted([action |-> Str("type"), text |-> Str("RM -RF /")]),
      Adapted([action |-> Str("file_write"), file_path |-> Str("notes.txt"),
               content |-> Str("x")]) }

\* What worker thread t has done with its command when it ends
WorkerEnds(t, h) ==
    /\ last' = h
    /\ conversation_context' = h.conversation_context
    /\ last_action' = h.last_action
    /\ running_processes' = h.running_processes
    /\ files' = h.files
    /\ spawned' = spawned \o SpawnedBy(h.events)
    /\ accepted' = IF Called(h.calls, "_update_context")
                   THEN Append(accepted, h.command) ELSE accepted
    /\ workers' = [workers EXCEPT ![t] = Idle]
    /\ UNCHANGED << flag, pyautogui, psutil, cwd, clock >>

\* _execute_command (main.py lines 195-209): a command is entered and a worker
\* thread is started for it
GuiStartThread(t) ==
    /\ clock < MaxCommands
    /\ workers[t] = Idle
    /\ \E command \in Commands :
          workers' = [workers EXCEPT ![t] = [pc |-> "process_command", command |-> command]]
    /\ clock' = clock + 1
    /\ UNCHANGED << conversation_context, last_action, running_processes, files, flag,
                    pyautogui, psutil, cwd, accepted, spawned, last >>

\* The thread runs process_command up to step 5 (interpreter.py lines 24-51): it
\* ends there when a step returns or raises, else it stands at the call of
\* _update_context (line 54)
WorkerInterprets(t) ==
    /\ workers[t].pc = "process_command"
    /\ \E reply \in WorkerReplies :
          \E approved \in { gui_execute_command_thread(
                                conversation_context, last_action, running_processes,
                                files, workers[t].command, Env(reply, "", "yes", "y"),
                                Os("ok", 0)) } :
             \E clar \in Tried(approved, "get_clarification", Clarifications, ""),
                dialog \in Tried(approved, "show_confirmation_dialog", Dialogs, "yes") :
                \E h \in { gui_execute_command_thread(
                               conversation_context, last_action, running_processes,
                               files, workers[t].command, Env(reply, clar, dialog, "y"),
                               Os("ok", 0)) } :
                   IF Called(h.calls, "_update_context")
                   THEN /\ workers' = [workers EXCEPT ![t] =
                                          [pc |-> "_update_context",
                                           command |-> workers[t].command,
                                           reply |-> reply, dialog |-> dialog]]
                        /\ UNCHANGED << conversation_context, last_action,
                                        running_processes, files, flag, pyautogui,
                                        psutil, cwd, clock, accepted, spawned, last >>
                   ELSE WorkerEnds(t, h)

\* The thread runs _update_context (interpreter.py lines 84-99) and the rest of
\* process_command and of _execute_command_thread (main.py lines 216-239)
WorkerUpdatesContext(t) ==
    /\ workers[t].pc = "_update_context"
    /\ \E approved \in { gui_execute_command_thread(
                             conversation_context, last_action, running_processes,
                             files, workers[t].command,
                             Env(workers[t].reply, "", workers[t].dialog, "y"),
                             Os("ok", 0)) } :
          \E prim \in Tried(approved, "execute_action", Prims, "ok"),
             matches \in Tried(approved, "execute_action", 0..1, 0) :
             WorkerEnds(t, gui_execute_command_thread(
                               conversation_context, last_action, running_processes,
                               files, workers[t].command,
                               Env(workers[t].reply, "", workers[t].dialog, "y"),
                               Os(prim, matches)))

NextThreads ==
    \E t \in Threads :
       \/ GuiStartThread(t)
       \/ WorkerInterprets(t)
       \/ WorkerUpdatesContext(t)

SpecThreads == Init /\ [][NextThreads]_vars

(***************************************************************************)
(* The components called directly, as demo.py calls them                   *)
(***************************************************************************)
\* The actions handed to a component
ApiActions ==
    { [action |-> Num(5, 0)],
      [action |-> Null],
      [action |-> Str("error"), error |-> Str("cannot do that")],
      [action |-> Str("wait"), seconds |-> Num(0, 1)],
      [action |-> Str("wait"), seconds |-> Num(61, 0)],
      [action |-> Str("wait")],
      [action |-> Str("Shell"), command |-> Str("ls")],
      [action |-> Str("click"), x |-> Num(100, 0), y |-> Num(200, 0)],
      [action |-> Str("click"), x |-> Num(5000, 0), y |-> Num(10, 0)],
      [action |-> Str("mouse_move"), x |-> Num(5000, 0), y |-> Num(10, 0)],
      [action |-> Str("scroll"), direction |-> Str("down")],
      [action |-> Str("type"), text |-> Str("Hello world")],
      [action |-> Str("type"), text |-> Str("my password")],
      [action |-> Str("key_press"), key |-> Str("Alt+F4")],
      [action |-> Str("key_press"), key |-> Str("enter")],
      [action |-> Str("open_app"), app_name |-> Str("notepad.exe")],
      [action |-> Str("open_app"), app_name |-> Str("calc")],
      [action |-> Str("close_app"), app_name |-> Str("notepad")],
      [action |-> Str("file_read"), file_path |-> Str("/home/u/system.txt")],
      [action |-> Str("file_read"), file_path |-> Str("notes.txt")],
      [action |-> Str("file_write"), file_path |-> Str("/etc/passwd"), content |-> Str("x")],
      [action |-> Str("file_write"), file_path |-> Str("notes.txt"), content |-> Str("x")],
      [action |-> Str("file_write"), file_path |-> Str("/home/u/config.txt"),
       content |-> Str("x"), mode |-> Str("a")],
      [type |-> Str("wait")],
      [action |-> Str("wait"), seconds |-> Num(120, 0)],
      [action |-> Str("wait"), seconds |-> Num(60, 0)],
      [action |-> Str("wait"), seconds |-> Num(60, 1)],
      [action |-> Str("wait"), seconds |-> Str("120")],
      [action |-> Str("key_press"), key |-> Str("alt + f4")] }

\* Further actions handed to the safety policy and the format check only
PolicyActions ==
    { [action |-> Str("type"), text |-> Str("x"), file_path |-> Str("/data/Windows/a.txt")],
      [action |-> Str("click"), x |-> Num(10, 0), y |-> Num(3000, 0)],
      [action |-> Str("click"), x |-> Num(3840, 0), y |-> Num(2160, 0)],
      [action |-> Str("click"), x |-> Num(-1, 0), y |-> Num(5, 0)],
      [action |-> Str("mouse_move"), x |-> Num(10, 0), y |-> Num(10, 0)],
      [action |-> Str("open_app"), app_name |-> Str("regedit.exe")],
      [action |-> Str("open_app"), app_name |-> Str("NOTEPAD.EXE")],
      [action |-> Str("open_app"), app_name |-> Str("taskmgr.exe")],
      [action |-> Str("close_app"), app_name |-> Str("taskmgr")],
      [action |-> Str("type"), text |-> Str("RM -RF /")],
      [action |-> Str("type"), text |-> Str("please Format c")],
      [action |-> Str("file_write"), file_path |-> Str("/home/u/../../etc/x.txt"),
       content |-> Str("x")],
      [action |-> Str("file_write"), file_path |-> Str("/home/u/run.exe"),
       content |-> Str("x")],
      [action |-> Str("file_write"), file_path |-> Str("/home/u/A.TXT"),
       content |-> Str("curl x")],
      [action |-> Str("file_write"), file_path |-> Str("/home/u/B.TXT"),
       content |-> Str("x")],
      [action |-> Str("key_press"), key |-> Str("WIN+R")] }

\* What is handed to validate_action_format: an action or something else
RawActions == ApiActions \cup PolicyActions \cup { Null, Str("wait"), Num(5, 0) }

\* The state after a component that changes nothing returned
AfterCall(h) ==
    /\ last' = h
    /\ clock' = clock + 1
    /\ UNCHANGED << conversation_context, last_action, running_processes, files, flag,
                    pyautogui, psutil, cwd, accepted, spawned, workers >>

\* safety_checker.validate_action(action) (demo.py lines 60 and 65)
CallValidateAction ==
    /\ clock < MaxCalls
    /\ \E action \in ApiActions \cup PolicyActions :
          AfterCall([op |-> "validate_action", action |-> action,
                     out |-> validate_action(action, files, cwd)])

\* safety_checker.requires_confirmation(action) (demo.py line 69)
CallRequiresConfirmation ==
    /\ clock < MaxCalls
    /\ \E action \in ApiActions \cup PolicyActions :
          AfterCall([op |-> "requires_confirmation", action |-> action,
                     out |-> requires_confirmation(action, flag)])

\* command_interpreter.validate_action_format(action) (demo.py lines 87 and 92)
CallValidateActionFormat ==
    /\ clock < MaxCalls
    /\ \E action \in RawActions :
          AfterCall([op |-> "validate_action_format", action |-> action,
                     out |-> validate_action_format(action)])

\* action_executor.execute_action(action) (demo.py lines 116, 147 and 153)
CallExecuteAction ==
    /\ clock < MaxCalls
    /\ \E action \in ApiActions :
          \E done \in { execute_action(action, running_processes, files, Os("ok", 1)) } :
             \E prim \in (IF done.events = <<>> THEN { "ok" } ELSE Prims),
                matches \in (IF done.events = <<>> THEN { 1 } ELSE 0..1) :
                \E x \in { execute_action(action, running_processes, files,
                                          Os(prim, matches)) } :
                   /\ last' = [op |-> "execute_action", action |-> action,
                               prim |-> prim, out |-> x]
                   /\ running_processes' = x.running_processes
                   /\ files' = x.files
                   /\ spawned' = spawned \o SpawnedBy(x.events)
                   /\ clock' = clock + 1
                   /\ UNCHANGED << conversation_context, last_action, flag, pyautogui,
                                   psutil, cwd, accepted, workers >>

\* action_executor.cleanup(), called once when the program exits (cli.py line
\* 359, main.py line 380): no call follows it
CallCleanup ==
    /\ clock <= MaxCalls
    /\ \E fate \in [DOMAIN running_processes -> ProcessFates] :
          last' = [op |-> "cleanup", registry |-> running_processes, fate |-> fate,
                   out |-> cleanup(running_processes, psutil, fate)]
    /\ clock' = MaxCalls + 1
    /\ UNCHANGED << conversation_context, last_action, running_processes, files, flag,
                    pyautogui, psutil, cwd, accepted, spawned, workers >>

NextApi ==
    \/ CallValidateAction
    \/ CallRequiresConfirmation
    \/ CallValidateActionFormat
    \/ CallExecuteAction
    \/ CallCleanup

SpecApi == Init /\ [][NextApi]_vars

(***************************************************************************)
(* The adapter parsing the replies of the model                            *)
(***************************************************************************)
\* What json.loads returns for the replies of the model
ParsedReplies ==
    { [action |-> Str("click"), parameters |-> [x |-> Num(10, 0), y |-> Num(20, 0)],
       reasoning |-> Str("r")],
      [action |-> Str("click"), x |-> Num(10, 0), y |-> Num(20, 0), reasoning |-> Str("r")],
      [reasoning |-> Str("greet"), action |-> Str("type"),
       parameters |-> [text |-> Str("hello")], confidence |-> Num(0, 9),
       safety_notes |-> Str("none")],
      [reasoning |-> Str("greet"), action |-> Str("type"), text |-> Str("hello"),
       confidence |-> Num(0, 9), safety_notes |-> Str("none")],
      [action |-> Str("wait"), parameters |-> [seconds |-> Num(2, 0)]],
      [action |-> Str("wait"), seconds |-> Num(2, 0)],
      [action |-> Str("key_press"), parameters |-> << >>, reasoning |-> Str("r")],
      [action |-> Str("error"), error |-> Str("cannot do that"), reasoning |-> Str("r")],
      [action |-> Str("error"), parameters |-> [message |-> Str("m")]],
      [action |-> Str("click"), parameters |-> Null, reasoning |-> Str("r")],
      [action |-> Str("wait"), parameters |-> [action |-> Str("type"), text |-> Str("x")],
       reasoning |-> Str("r")],
      [action |-> Str("click"), parameters |-> [x |-> Num(10, 0)], y |-> Num(20, 0),
       reasoning |-> Str("r")],
      [reasoning |-> Str("r")],
      JsonList,
      NotJson }

\* self._parse_gpt_response(gpt_response) (gpt_interface.py line 60)
AdapterParses ==
    /\ clock < MaxCalls
    /\ \E parsed \in ParsedReplies :
          AfterCall([op |-> "_parse_gpt_response", parsed |-> parsed,
                     out |-> _parse_gpt_response(parsed)])

NextAdapter == AdapterParses

SpecAdapter == Init /\ [][NextAdapter]_vars

(***************************************************************************)
(* validate_action on type actions with texts up to and past the length cap *)
(***************************************************************************)
\* The number of type actions validated in one run
MaxTextCalls == 1

RECURSIVE Repeat(_, _)
\* s * n
Repeat(s, n) ==
    IF n = 0 THEN ""
    ELSE IF n = 1 THEN s
    ELSE Repeat(s, n \div 2) \o Repeat(s, n \div 2) \o (IF n % 2 = 1 THEN s ELSE "")

\* The text fields of the type actions validated
TypeTexts ==
    { Str("Hello world"), Str(""), Str("RM -RF /"), Str("please Format c"),
      Str("information"), Str("rm-rf"), Num(5, 0),
      Str(Repeat("a", TypeTextCap)),
      Str(Repeat("a", TypeTextCap + 1)),
      Str(Repeat("a", TypeTextCap - 4) \o "EVAL") }

\* safety_checker.validate_action({'action': 'type', 'text': text})
\* (demo.py lines 60 and 65)
CallValidateTypeText ==
    /\ clock < MaxTextCalls
    /\ \E text \in TypeTexts :
          \E action \in { [action |-> Str("type"), text |-> text] } :
             AfterCall([op |-> "validate_action", action |-> action,
                        out |-> validate_action(action, files, cwd)])

NextText == CallValidateTypeText

SpecText == Init /\ [][NextText]_vars

(***************************************************************************)
(* Properties of a command handled by the CLI or the GUI                   *)
(***************************************************************************)
\* The last call was a command handled by the CLI or the GUI
Pipeline == last.op \in { "cli", "gui" }
\* The adapter returned an action for the last command
Interpreted == Pipeline /\ IsDict(last.env.reply) /\ ~Falsy(last.env.reply)
\* The adapter returned an action of kind error
ErrorReply == Interpreted /\ Get(last.env.reply, "action", Null) = Str("error")
\* What validate_action says of the adapter's action in the file system of the command
VerdictOnReply == validate_action(last.env.reply, last.env.files, last.env.cwd)
UnsafeReply == /\ Interpreted
               /\ ~ErrorReply
               /\ ~VerdictOnReply.raised
               /\ ~VerdictOnReply.safe
SafeReply == /\ Interpreted
             /\ ~ErrorReply
             /\ ~VerdictOnReply.raised
             /\ VerdictOnReply.safe
\* What requires_confirmation says of the adapter's action
ConfirmationOnReply == requires_confirmation(last.env.reply, last.env.flag)
\* The action passes validation and needs a confirmation
AskedReply == SafeReply /\ ~ConfirmationOnReply.raised /\ ConfirmationOnReply.value
\* The action passes validation and, where a confirmation is needed, gets it
AcceptedReply ==
    /\ SafeReply
    /\ ~ConfirmationOnReply.raised
    /\ ConfirmationOnReply.value => show_confirmation_dialog(last.env.reply, last.env.dialog)
\* Nothing of the executor ran for the last command
NothingExecuted ==
    /\ ~last.executed
    /\ ~Called(last.calls, "execute_action")
    /\ last.events = <<>>
    /\ last.running_processes = << >>

\* C1: when the adapter returns an action of kind error, process_command returns
\* a failure and neither the CLI nor the GUI calls execute_action for the command.
C1_ErrorActionNeverExecuted ==
    ErrorReply => /\ ~last.raised
                  /\ ~last.success
                  /\ NothingExecuted

\* An error response was handled at the CLI and reported as a failure
C1_Witness ==
    /\ ErrorReply
    /\ last.op = "cli"
    /\ ~last.success
    /\ last.action_data = last.env.reply

\* C2: when validate_action finds the adapter's action unsafe, process_command
\* returns a failure that carries the action and whose message, absent a
\* clarification, is the reason of the rejection; execute_action is not called.
C2_UnsafeActionNeverExecuted ==
    UnsafeReply => /\ ~last.raised
                   /\ ~last.success
                   /\ last.action_data = last.env.reply
                   /\ last.env.clar = ""
                         => last.message = Str("Safety check failed: " \o VerdictOnReply.reason)
                   /\ NothingExecuted

\* A write to /etc/passwd was rejected in the GUI with the restricted-directory reason
C2_Witness ==
    /\ UnsafeReply
    /\ last.op = "gui"
    /\ Get(last.env.reply, "action", Null) = Str("file_write")
    /\ Get(last.env.reply, "file_path", Null) = Str("/etc/passwd")
    /\ last.message = Str("Safety check failed: Write to restricted directory: /etc")
    /\ last.action_data = last.env.reply

\* C3: when the adapter's action needs a confirmation and the operator denies
\* it, process_command returns the failure "Action cancelled by user" carrying
\* the action, execute_action is not called and no process is spawned.
C3_DeniedActionNeverExecuted ==
    (AskedReply /\ last.env.dialog = "no")
        => /\ ~last.raised
           /\ ~last.success
           /\ last.message = Str("Action cancelled by user")
           /\ last.action_data = last.env.reply
           /\ NothingExecuted
           /\ spawned = <<>>

\* The operator denied the launch of notepad.exe at the CLI
C3_Witness ==
    /\ AskedReply
    /\ last.env.dialog = "no"
    /\ last.op = "cli"
    /\ Get(last.env.reply, "action", Null) = Str("open_app")
    /\ Get(last.env.reply, "app_name", Null) = Str("notepad.exe")
    /\ last.message = Str("Action cancelled by user")

\* C4: when the adapter's action is not an error, passes validate_action and,
\* where a confirmation is needed, is confirmed, process_command returns success
\* with the reasoning of the action in its message and the action itself, and
\* the history ends with one new entry for the command.
C4_AcceptedCommandStored ==
    AcceptedReply
        => /\ last.success
           /\ last.message = Str("Command interpreted successfully: "
                                 \o ToText(Get(last.env.reply, "reasoning",
                                               Str("No reasoning provided"))))
           /\ last.action_data = last.env.reply
           /\ conversation_context # <<>>
           /\ conversation_context[Len(conversation_context)].command = last.command
           /\ conversation_context[Len(conversation_context)].action
                 = Get(last.env.reply, "action", Null)
           /\ last_action = last.env.reply

HighRiskAtCli ==
    /\ last.op = "cli"
    /\ last.env.flag
    /\ Interpreted
    /\ Get(last.env.reply, "action", Null)
          \in { Str("file_write"), Str("open_app"), Str("close_app") }
\* The positions of a call in the calls of the last command
CallsOf(name) == { i \in 1..Len(last.calls) : last.calls[i] = name }
\* The dialog and then the y/n prompt were both answered with an approval
\* before the executor was called
BothApproved ==
    /\ last.env.dialog = "yes"
    /\ last.env.cli = "y"
    /\ \A e \in CallsOf("execute_action") :
          \E d \in CallsOf("show_confirmation_dialog") :
             \E p \in CallsOf("_get_user_confirmation") : d < p /\ p < e
\* The operator declined the dialog or the y/n prompt
DeclinedOne ==
    \/ Called(last.calls, "show_confirmation_dialog") /\ last.env.dialog # "yes"
    \/ Called(last.calls, "_get_user_confirmation") /\ last.env.cli # "y"

\* The executor was not called for the last command and no input event was sent
NotReachedExecutor ==
    /\ ~last.executed
    /\ ~Called(last.calls, "execute_action")
    /\ last.events = <<>>

DialogFailed ==
    /\ Pipeline
    /\ Called(last.calls, "show_confirmation_dialog")
    /\ last.env.dialog = "error" \/ FormatDetailsRaises(last.env.reply)

\* C30: when the confirmation dialog cannot be shown or raises,
\* show_confirmation_dialog returns false, process_command returns the failure
\* "Action cancelled by user" and the action is not executed.
C30_ConfirmationFailsClosed ==
    DialogFailed
        => /\ ~show_confirmation_dialog(last.env.reply, last.env.dialog)
           /\ ~last.raised
           /\ ~last.success
           /\ last.message = Str("Action cancelled by user")
           /\ NotReachedExecutor

\* The dialog for the launch of notepad.exe could not be shown in the GUI
C30_Witness ==
    /\ DialogFailed
    /\ last.op = "gui"
    /\ last.env.dialog = "error"
    /\ Get(last.env.reply, "action", Null) = Str("open_app")
    /\ last.message = Str("Action cancelled by user")
    /\ ~last.executed

StageOf(call) ==
    CASE call \in { "_build_context", "interpret_command" } -> 1
      [] call = "validate_action" -> 2
      [] call \in { "requires_confirmation", "show_confirmation_dialog", "_update_context",
                    "_requires_cli_confirmation", "_get_user_confirmation" } -> 3
      [] call = "execute_action" -> 4
      [] call \in { "get_clarification", "log_error" } -> 5
      [] OTHER -> 0

\* The operator denied the confirmation of the last command
Denied ==
    \/ /\ Called(last.calls, "show_confirmation_dialog")
       /\ ~show_confirmation_dialog(last.env.reply, last.env.dialog)
    \/ /\ Called(last.calls, "_get_user_confirmation")
       /\ last.env.cli # "y"

\* The terminal states the last command reached
Terminals ==
    (IF last.executed /\ ~last.exec_raised THEN { "Done" } ELSE {})
    \cup (IF UnsafeReply THEN { "Rejected" } ELSE {})
    \cup (IF Denied THEN { "Cancelled" } ELSE {})
    \cup (IF \/ ~Interpreted
             \/ ErrorReply
             \/ Called(last.calls, "log_error")
             \/ last.raised
             \/ last.exec_raised
          THEN { "Error" } ELSE {})

\* The calls of the last command that belong to a stage in Stages
CallsIn(Stages) == { i \in 1..Len(last.calls) : StageOf(last.calls[i]) \in Stages }

\* C6: the calls of a command are made in the order of the stages Interpreting,
\* Validating, ConfirmPending, Executing; the command reaches exactly one terminal
\* state; and no stage runs after the terminal state: none after the report of a
\* failure, no validation after an interpretation error, no confirmation after a
\* rejection, no storing or execution after a denial.
C6_StagesInOrder ==
    Pipeline
        => /\ \A i \in 1..Len(last.calls), j \in 1..Len(last.calls) :
                 i < j => /\ StageOf(last.calls[i]) # 0
                          /\ StageOf(last.calls[i]) <= StageOf(last.calls[j])
           /\ Len(last.calls) >= 2
           /\ last.calls[1] = "_build_context"
           /\ Cardinality(Terminals) = 1
           /\ (~Interpreted \/ ErrorReply) => CallsIn({ 2, 3, 4 }) = {}
           /\ UnsafeReply => CallsIn({ 3, 4 }) = {}
           /\ Denied => /\ CallsIn({ 4 }) = {}
                        /\ ~Called(last.calls, "_update_context")

\* The operator denied a confirmation in the GUI after interpretation and validation
C6_Witness ==
    /\ Pipeline
    /\ last.op = "gui"
    /\ Terminals = { "Cancelled" }
    /\ last.calls = << "_build_context", "interpret_command", "validate_action",
                       "requires_confirmation", "show_confirmation_dialog" >>

\* C7: an action that validate_action_format refuses is stopped before
\* validate_action and execute_action are called on it.
C7_MalformedActionStopped ==
    (Interpreted /\ ~validate_action_format(last.env.reply).ok)
        => /\ ~Called(last.calls, "validate_action")
           /\ ~Called(last.calls, "execute_action")

\* C8: process_command raises nothing: every failure is returned as success =
\* FALSE with a message, and the state of the interpreter stays well formed.
C8_NoFaultPropagates ==
    Pipeline
        => /\ ~last.raised
           /\ last.success \in BOOLEAN
           /\ last.message # Null
           /\ Len(conversation_context) <= HistoryCap
           /\ conversation_context = last.conversation_context
           /\ last_action = last.last_action

\* An exception inside process_command was returned as a failure, after an
\* earlier command had been handled
C8_Witness ==
    /\ Pipeline
    /\ clock > 1
    /\ Called(last.calls, "log_error")
    /\ ~last.success
    /\ last.message = Str("Error processing command: list index out of range")
    /\ last.action_data = Null

\* C24: a process_command call that returns failure, at whichever step, leaves
\* the conversation history and last_action as they were before the call.
C24_FailureLeavesHistory ==
    [][(last'.op \in { "cli", "gui" } /\ ~last'.success)
          => (conversation_context' = conversation_context /\ last_action' = last_action)]_vars

\* process_command failed inside _update_context, after validation and
\* confirmation had passed, and the history and last_action are as before
C24_Witness ==
    /\ Pipeline
    /\ ~last.success
    /\ Called(last.calls, "_update_context")
    /\ last.calls[Len(last.calls)] = "log_error"
    /\ conversation_context = <<>>
    /\ last_action = Null

C9_ExecutorNeverRaises ==
    last.op = "execute_action" => ~last.out.raised

\* C10: with the confirmation flag off requires_confirmation returns FALSE,
\* whatever the kind and the file_path of the action.
C10_FlagOffNeverConfirms ==
    (last.op = "requires_confirmation" /\ ~flag) => last.out = Returns(FALSE)

\* requires_confirmation was asked, with the flag off, about a path that holds a
\* sensitive keyword
C10_Witness ==
    /\ last.op = "requires_confirmation"
    /\ ~flag
    /\ last.action = [action |-> Str("file_read"), file_path |-> Str("/home/u/system.txt")]
    /\ confirmation_rules(last.action) = Returns(TRUE)
    /\ last.out = Returns(FALSE)

\* The action's kind is a string spelled in lower case and its file_path, when it
\* has one, is a string
KindAndPathTyped(action) ==
    /\ IsDict(action)
    /\ "action" \in DOMAIN action
    /\ IsStr(action.action)
    /\ Lower(action.action.s) = action.action.s
    /\ "file_path" \in DOMAIN action => IsStr(action.file_path)

\* The file_path of the action holds a sensitive keyword, in whatever case
SensitivePath(action) ==
    /\ "file_path" \in DOMAIN action
    /\ \E keyword \in { "system", "program", "windows" } :
          Contains(Lower(action.file_path.s), keyword)

\* C11: with the confirmation flag on requires_confirmation returns TRUE exactly
\* when the kind is file_write, open_app or close_app or the file_path holds one
\* of the sensitive keywords in whatever case, and FALSE for every other action.
C11_FlagOnConfirmsByKindOrPath ==
    (last.op = "requires_confirmation" /\ flag /\ KindAndPathTyped(last.action))
        => last.out = Returns(\/ last.action.action.s \in { "file_write", "open_app", "close_app" }
                              \/ SensitivePath(last.action))

\* requires_confirmation was asked, with the flag on, about a type action whose
\* file_path holds a keyword in another case, and answered TRUE
C11_Witness ==
    /\ last.op = "requires_confirmation"
    /\ flag
    /\ last.action = [action |-> Str("type"), text |-> Str("x"),
                      file_path |-> Str("/data/Windows/a.txt")]
    /\ last.out = Returns(TRUE)

\* validate_action was asked about an action of one of the kinds and answered
Validated(kinds) ==
    /\ last.op = "validate_action"
    /\ IsDict(last.action)
    /\ "action" \in DOMAIN last.action
    /\ last.action.action \in { Str(kind) : kind \in kinds }
    /\ ~last.out.raised

\* The action carries whole-number coordinates inside the 3840 by 2160 rectangle
InsideScreenBounds(action) ==
    /\ { "x", "y" } \subseteq DOMAIN action
    /\ IsNum(action.x) /\ IsNum(action.y)
    /\ NumLeInt(action.x, MaxClickX) /\ IntLeNum(0, action.x)
    /\ NumLeInt(action.y, MaxClickY) /\ IntLeNum(0, action.y)

\* C12: validate_action reports a click and a mouse_move unsafe when x is outside
\* 0..3840 or y is outside 0..2160, and safe when both are inside.
C12_PointerBoundsChecked ==
    (Validated({ "click", "mouse_move" }) /\ { "x", "y" } \subseteq DOMAIN last.action)
        => (last.out.safe <=> InsideScreenBounds(last.action))

\* The app_name of the action holds a fragment of the whitelist, in whatever case
NamesWhitelistedApp(action) ==
    \E i \in 1..Len(WHITELISTED_APPLICATIONS) :
       Contains(Lower(action.app_name.s), Lower(WHITELISTED_APPLICATIONS[i]))

\* C13: validate_action reports an open_app and a close_app unsafe when app_name
\* holds no fragment of the whitelist, and safe when it holds one.
C13_AppWhitelistChecked ==
    (/\ Validated({ "open_app", "close_app" })
     /\ "app_name" \in DOMAIN last.action
     /\ IsStr(last.action.app_name))
        => (last.out.safe <=> NamesWhitelistedApp(last.action))

\* The text holds one of the dangerous keywords, in whatever case
HoldsDangerousKeyword(text) ==
    \E i \in 1..Len(DANGEROUS_KEYWORDS) : Contains(Lower(text), DANGEROUS_KEYWORDS[i])

\* The verdict the claim gives a text: unsafe with a keyword, safe without one up
\* to the cap
TextVerdictAsClaimed(text, safe) ==
    Bind(HoldsDangerousKeyword(text), LAMBDA dangerous :
         /\ dangerous => ~safe
         /\ (~dangerous /\ Len(text) <= 10000) => safe)

\* C14: validate_action reports a type action unsafe when its text holds a
\* dangerous keyword in whatever case, and safe when it holds none and is at most
\* 10000 characters long.
C14_TypeTextChecked ==
    (Validated({ "type" }) /\ "text" \in DOMAIN last.action /\ IsStr(last.action.text))
        => TextVerdictAsClaimed(last.action.text.s, last.out.safe)

\* A text of exactly 10000 characters with no keyword was validated and reported
\* safe
C14_Witness ==
    /\ Validated({ "type" })
    /\ IsStr(last.action.text)
    /\ Len(last.action.text.s) = 10000
    /\ ~HoldsDangerousKeyword(last.action.text.s)
    /\ last.out.safe

\* The resolved path starts with one of the restricted directory prefixes
UnderRestrictedPrefix(rp) ==
    \E i \in 1..Len(RESTRICTED_DIRECTORIES) : StartsWith(rp, RESTRICTED_DIRECTORIES[i])

\* What the claim requires of a file_write reported safe, apart from its path
WritableAsClaimed(action, rp) ==
    /\ Lower(PathSuffix(rp)) \in Range(SAFE_FILE_EXTENSIONS)
    /\ "content" \in DOMAIN action =>
          /\ IsStr(action.content)
          /\ ~HoldsDangerousKeyword(action.content.s)
          /\ Len(action.content.s) <= 10 * 1024 * 1024

\* The verdict the claim gives a file_write whose file_path resolves to rp
WriteVerdictAsClaimed(action, rp, safe) ==
    /\ UnderRestrictedPrefix(rp) => ~safe
    /\ safe => (~UnderRestrictedPrefix(rp) /\ WritableAsClaimed(action, rp))

\* C15: validate_action reports a file_write unsafe when its resolved path lies
\* under a restricted directory prefix, whatever its extension and content, and
\* reports it safe only when the path is outside every restricted prefix, the
\* extension is in the safe list, the content holds no dangerous keyword and the
\* content is within the size cap.
C15_RestrictedWriteRefused ==
    (/\ Validated({ "file_write" })
     /\ "file_path" \in DOMAIN last.action
     /\ IsStr(last.action.file_path))
        => WriteVerdictAsClaimed(last.action, Resolve(last.action.file_path.s, cwd),
                                 last.out.safe)

\* A file_write with a safe extension and harmless content whose path climbs out
\* of the home directory into /etc was validated and reported unsafe
C15_Witness ==
    /\ Validated({ "file_write" })
    /\ last.action.file_path = Str("/home/u/../../etc/x.txt")
    /\ cwd = "/home/u"
    /\ Resolve(last.action.file_path.s, cwd) = "/etc/x.txt"
    /\ ~last.out.safe
    /\ last.out.reason = "Write to restricted directory: /etc"

\* The key of the action, "" when it has none (the default of action.get)
KeyOf(action) == IF "key" \in DOMAIN action THEN action.key ELSE Str("")

\* C16: validate_action reports a key_press unsafe when its key, compared in
\* lower case, is alt+f4, ctrl+alt+del, cmd+q or win+r, and lets every other
\* key_press pass.
C16_DenyListedKeysRefused ==
    (Validated({ "key_press" }) /\ IsStr(KeyOf(last.action)))
        => (last.out.safe <=>
               Lower(KeyOf(last.action).s) \notin { "alt+f4", "ctrl+alt+del", "cmd+q", "win+r" })

\* A key_press of WIN+R, spelled in upper case, was validated and reported unsafe
C16_Witness ==
    /\ Validated({ "key_press" })
    /\ last.action.key = Str("WIN+R")
    /\ ~last.out.safe
    /\ last.out.reason = "Dangerous key combination: win+r"

\* The kinds of action the system knows
KnownKinds ==
    { "click", "type", "key_press", "open_app", "close_app", "file_read", "file_write",
      "mouse_move", "scroll", "wait", "error" }

\* C17: validate_action_format accepts a raw value only when it is a mapping whose
\* action field names a known kind and which holds every required field of that
\* kind; an action field that names no known kind is rejected.
C17_FormatAcceptsKnownKindsOnly ==
    (last.op = "validate_action_format" /\ last.out.ok)
        => /\ IsDict(last.action)
           /\ "action" \in DOMAIN last.action
           /\ last.action.action \in { Str(kind) : kind \in KnownKinds }

\* execute_action was handed a wait action whose seconds field is a number or a
\* text float() parses
WaitExecuted ==
    /\ last.op = "execute_action"
    /\ "action" \in DOMAIN last.action
    /\ last.action.action = Str("wait")
    /\ "seconds" \in DOMAIN last.action
    /\ ~PyFloat(last.action.seconds).raised

\* What the claim says of a wait of the given length: above 60 seconds a failure
\* that cites the ceiling and no sleep; up to 60 seconds, when time.sleep accepts
\* the length and returns, one sleep of that length and success
WaitAsClaimed(seconds, prim, out) ==
    /\ NumGtInt(seconds, 60) =>
          /\ ~out.success
          /\ out.message = "Wait time too long (max 60 seconds)"
          /\ out.events = <<>>
    /\ (~NumGtInt(seconds, 60) /\ seconds.n >= 0 /\ prim = "ok") =>
          /\ out.success
          /\ out.events = << Event("sleep", << FloatText(seconds) >>) >>

\* C18: the executor sleeps for a wait action only when the requested duration is
\* at most 60 seconds; a request above 60 fails citing the 60-second ceiling with
\* no sleep, and a request within the ceiling sleeps that long and succeeds.
C18_WaitCeiling ==
    WaitExecuted => WaitAsClaimed(PyFloat(last.action.seconds).value, last.prim, last.out)

\* A wait of 120 seconds was refused without a sleep
C18_Witness ==
    /\ WaitExecuted
    /\ last.action.seconds = Num(120, 0)
    /\ ~last.out.success
    /\ last.out.message = "Wait time too long (max 60 seconds)"
    /\ last.out.events = <<>>

\* execute_action was handed an action of one of the kinds and returned
ExecutedKind(kinds) ==
    /\ last.op = "execute_action"
    /\ IsDict(last.action)
    /\ "action" \in DOMAIN last.action
    /\ last.action.action \in { Str(kind) : kind \in kinds }
    /\ ~last.out.raised

\* The action carries whole-number coordinates that lie outside the screen
OffScreen(action) ==
    /\ { "x", "y" } \subseteq DOMAIN action
    /\ IsNum(action.x) /\ IsNum(action.y)
    /\ action.x.f = 0 /\ action.y.f = 0
    /\ \A screen \in Screens :
          ~(0 <= action.x.n /\ action.x.n <= screen[1]
            /\ 0 <= action.y.n /\ action.y.n <= screen[2])

\* C21: for a click and for a mouse_move whose coordinates fall outside the
\* screen the executor returns failure and dispatches no pointer event.
C21_OffScreenPointerRefused ==
    (ExecutedKind({ "click", "mouse_move" }) /\ OffScreen(last.action))
        => (~last.out.success /\ last.out.events = <<>>)

\* The recorded pids whose process is still alive when cleanup reaches it
StillRunning(registry, fate) ==
    { registry[app_name] : app_name \in { a \in DOMAIN registry : fate[a] # "gone" } }

\* C22: cleanup attempts to terminate every process still recorded in the
\* registry, whether or not the attempt on another one failed, and never raises.
C22_CleanupTerminatesEveryRecorded ==
    last.op = "cleanup"
        => (~last.out.raised /\ last.out.attempted = StillRunning(last.registry, last.fate))

DeniedChords ==
    { << "alt", "f4" >>, << "ctrl", "alt", "del" >>, << "cmd", "q" >>, << "win", "r" >> }

\* The keys of a chord in lower case
LowerKeys(keys) == [i \in 1..Len(keys) |-> Lower(keys[i])]

\* execute_action dispatched a key_press as a chord of a deny-listed combination
DeniedChordDispatched ==
    /\ ExecutedKind({ "key_press" })
    /\ last.out.events # <<>>
    /\ last.out.events[1].op = "hotkey"
    /\ LowerKeys(last.out.events[1].args) \in DeniedChords

\* C26: no key_press that passes validate_action is dispatched by the executor
\* as a chord whose keys are those of a deny-listed combination, whatever the
\* spacing and letter case of its key expression.
C26_NoDeniedChordAfterValidation ==
    DeniedChordDispatched => ~validate_action(last.action, files, cwd).safe

\* The pids the registry holds, as spawned records them (name launched, pid)
RecordedPids ==
    { NatText(running_processes[app_name]) : app_name \in DOMAIN running_processes }

\* C27: after any sequence of successful open_app executions the registry holds
\* the pid of every process the executor spawned, also when one app name was
\* opened more than once, so that cleanup reaches each of them.
C27_RegistryHoldsEverySpawnedPid ==
    \A i \in 1..Len(spawned) : spawned[i][2] \in RecordedPids

(***************************************************************************)
(* Properties of the adapter                                               *)
(***************************************************************************)
\* The fields of the reply format that are not parameters of the action
ReplyFields == { "action", "reasoning", "confidence", "safety_notes" }

\* The reply carries its parameters in a mapping under parameters and nothing
\* else besides the fields of the reply format
Nested(parsed) ==
    /\ "parameters" \in DOMAIN parsed
    /\ IsDict(parsed.parameters)
    /\ DOMAIN parsed.parameters \cap (ReplyFields \cup { "parameters" }) = {}
    /\ DOMAIN parsed \subseteq ReplyFields \cup { "parameters" }

\* The reply carries its parameters at the top level
Flattened(parsed) == "parameters" \notin DOMAIN parsed

\* A reply that names an action other than error, in one of the two forms
ActionReply(parsed) ==
    /\ IsDict(parsed)
    /\ "action" \in DOMAIN parsed
    /\ IsStr(parsed.action)
    /\ parsed.action # Str("error")
    /\ Nested(parsed) \/ Flattened(parsed)

\* The parameters the reply gives
ParametersOf(parsed) ==
    IF Flattened(parsed)
    THEN [k \in DOMAIN parsed \ ReplyFields |-> parsed[k]]
    ELSE parsed.parameters

\* The same reply in the other form
InOtherForm(parsed) ==
    IF Flattened(parsed)
    THEN [k \in (DOMAIN parsed \cap ReplyFields) \cup { "parameters" } |->
             IF k = "parameters" THEN ParametersOf(parsed) ELSE parsed[k]]
    ELSE ParametersOf(parsed) @@ [k \in DOMAIN parsed \cap ReplyFields |-> parsed[k]]

\* The action keeps the kind, every parameter and the reasoning of the reply and
\* has the confidence of the reply, 0.5 when the reply gives none
Normalized(parsed, out) ==
    /\ IsDict(out)
    /\ DOMAIN out = DOMAIN ParametersOf(parsed) \cup { "action", "reasoning", "confidence" }
    /\ out.action = parsed.action
    /\ \A k \in DOMAIN ParametersOf(parsed) : out[k] = ParametersOf(parsed)[k]
    /\ "reasoning" \in DOMAIN parsed => out.reasoning = parsed.reasoning
    /\ out.confidence = (IF "confidence" \in DOMAIN parsed THEN parsed.confidence
                         ELSE Num(0, 5))

\* C20: the adapter normalizes a reply to the same action whether its parameters
\* are nested under parameters or flattened at the top level: the kind, every
\* parameter value and the reasoning are kept, and the confidence is 0.5 when
\* the reply gives none.
C20_NestedAndFlattenedAgree ==
    (last.op = "_parse_gpt_response" /\ ActionReply(last.parsed))
        => /\ Normalized(last.parsed, last.out)
           /\ _parse_gpt_response(InOtherForm(last.parsed)) = last.out

\* The click reply with x=10 and y=20 nested under parameters and reasoning r was
\* parsed to x=10, y=20, reasoning r and confidence 0.5
C20_Witness ==
    /\ last.op = "_parse_gpt_response"
    /\ last.parsed = [action |-> Str("click"),
                      parameters |-> [x |-> Num(10, 0), y |-> Num(20, 0)],
                      reasoning |-> Str("r")]
    /\ last.out = [action |-> Str("click"), x |-> Num(10, 0), y |-> Num(20, 0),
                   reasoning |-> Str("r"), confidence |-> Num(0, 5)]

(***************************************************************************)
(* Properties of the GUI's worker threads                                  *)
(***************************************************************************)
\* The worker threads that stand inside the update of the conversation history
Updating == { t \in Threads : workers[t].pc = "_update_context" }

\* C19: the updates of the conversation history by concurrent invocations of
\* process_command are mutually exclusive: at most one worker thread is inside
\* the update at a time.
C19_UpdatesMutuallyExclusive == Cardinality(Updating) <= 1

====
